---- MODULE Spec2Model ----
(***************************************************************************)
(* Screening-level dispersion engine of kenzachary/sumo-simulations.       *)
(*                                                                         *)
(* The repository holds several script variants of one pipeline            *)
(*   feed record -> lane lookup -> segment decomposition -> downwind       *)
(*   filter -> concentration -> rows -> groupby/sum -> export              *)
(* (disper.py, disper_v3.py, better_disper.py, v5_webapp.py, v7_webapp.py).*)
(* Each variant is modelled from its own source; `variant` selects it.     *)
(*                                                                         *)
(* Numbers.  The scripts compute in IEEE doubles.  The model computes in   *)
(* exact rationals n/d * 2^e2 * 5^e5, extended with the three              *)
(* non-finite doubles (+Inf, -Inf, NaN) that numpy produces on a division   *)
(* by zero, so rounding error is abstracted and everything else (clamps,   *)
(* comparisons, 0/0, x/0, unit factors) is computed as the code does.      *)
(* sqrt and atan2 are exact only on axis-aligned (atan2: also diagonal)    *)
(* vectors, so the modelled geometry keeps every source-target delta on    *)
(* those directions; any other vector is outside the operators' domain.    *)
(***************************************************************************)
EXTENDS Integers, Sequences, FiniteSets, TLC

(***************************************************************************)
(* Extended rationals  [n, d, e2, e5]  =  n/d * 2^e2 * 5^e5.               *)
(* Finite values are kept normalised: d > 0, gcd(n, d) = 1, n and d        *)
(* coprime to 10, zero = [0, 1, 0, 0]; equal values are equal records.     *)
(* d = 0 marks a non-finite double: n = 1 +Inf, n = -1 -Inf, n = 0 NaN.    *)
(***************************************************************************)
RECURSIVE GCD(_, _)
GCD(a, b) == IF b = 0 THEN a ELSE GCD(b, a % b)

Abs(x) == IF x < 0 THEN -x ELSE x

Sign(x) == IF x < 0 THEN -1 ELSE IF x > 0 THEN 1 ELSE 0

RECURSIVE Pow(_, _)
Pow(b, k) == IF k = 0 THEN 1 ELSE b * Pow(b, k - 1)

NaN == [n |-> 0, d |-> 0, e2 |-> 0, e5 |-> 0]

PosInf == [n |-> 1, d |-> 0, e2 |-> 0, e5 |-> 0]

NegInf == [n |-> -1, d |-> 0, e2 |-> 0, e5 |-> 0]

Zero == [n |-> 0, d |-> 1, e2 |-> 0, e5 |-> 0]

IsFinite(a) == a.d # 0

IsNaN(a) == a.d = 0 /\ a.n = 0

RECURSIVE Strip(_, _, _, _)
Strip(n, d, e2, e5) ==
    IF n % 2 = 0 THEN Strip(n \div 2, d, e2 + 1, e5)
    ELSE IF n % 5 = 0 THEN Strip(n \div 5, d, e2, e5 + 1)
    ELSE IF d % 2 = 0 THEN Strip(n, d \div 2, e2 - 1, e5)
    ELSE IF d % 5 = 0 THEN Strip(n, d \div 5, e2, e5 - 1)
    ELSE [n |-> n, d |-> d, e2 |-> e2, e5 |-> e5]

MkF(n, d, e2, e5) ==
    IF d = 0 THEN [n |-> Sign(n), d |-> 0, e2 |-> 0, e5 |-> 0]
    ELSE IF n = 0 THEN Zero
    ELSE LET g == GCD(Abs(n), Abs(d))
         IN  Strip(Sign(d) * (n \div g), Abs(d) \div g, e2, e5)

\* n/d * 10^e
MkR(n, d, e) == MkF(n, d, e, e)

RInt(k) == MkR(k, 1, 0)

\* the decimal literal k * 10^e
Dec(k, e) == MkR(k, 1, e)

RSign(a) == Sign(a.n)

RNeg(a) == [a EXCEPT !.n = -a.n]

RAbs(a) == [a EXCEPT !.n = Abs(a.n)]

RMul(a, b) ==
    IF IsNaN(a) \/ IsNaN(b) THEN NaN
    ELSE IF ~IsFinite(a) \/ ~IsFinite(b)
         THEN MkF(RSign(a) * RSign(b), 0, 0, 0)
    ELSE IF a.n = 0 \/ b.n = 0 THEN Zero
    ELSE LET g1 == GCD(Abs(a.n), b.d)
             g2 == GCD(Abs(b.n), a.d)
         IN  MkF((a.n \div g1) * (b.n \div g2),
                 (a.d \div g2) * (b.d \div g1), a.e2 + b.e2, a.e5 + b.e5)

\* numpy double division: x/0 is +-Inf, 0/0 is NaN (a RuntimeWarning, no exception)
RDiv(a, b) ==
    IF IsNaN(a) \/ IsNaN(b) THEN NaN
    ELSE IF ~IsFinite(b) THEN (IF IsFinite(a) THEN Zero ELSE NaN)
    ELSE IF ~IsFinite(a) THEN MkF(RSign(a) * (IF b.n < 0 THEN -1 ELSE 1), 0, 0, 0)
    ELSE IF b.n = 0 THEN MkF(RSign(a), 0, 0, 0)
    ELSE RMul(a, [n |-> Sign(b.n) * b.d, d |-> Abs(b.n), e2 |-> -b.e2, e5 |-> -b.e5])

RAdd(a, b) ==
    IF IsNaN(a) \/ IsNaN(b) THEN NaN
    ELSE IF ~IsFinite(a) THEN (IF ~IsFinite(b) /\ b.n # a.n THEN NaN ELSE a)
    ELSE IF ~IsFinite(b) THEN b
    ELSE IF a.n = 0 THEN b
    ELSE IF b.n = 0 THEN a
    ELSE LET e2 == IF a.e2 < b.e2 THEN a.e2 ELSE b.e2
             e5 == IF a.e5 < b.e5 THEN a.e5 ELSE b.e5
             na == a.n * Pow(2, a.e2 - e2) * Pow(5, a.e5 - e5)
             nb == b.n * Pow(2, b.e2 - e2) * Pow(5, b.e5 - e5)
             gn == GCD(Abs(na), Abs(nb))
             gd == GCD(a.d, b.d)
             sum == (na \div gn) * (b.d \div gd) + (nb \div gn) * (a.d \div gd)
         IN  RMul(MkF(gn, 1, e2, e5), MkF(sum, (a.d \div gd) * b.d, 0, 0))

RSub(a, b) == RAdd(a, RNeg(b))

\* comparisons of doubles: every comparison with NaN is false
RLt(a, b) ==
    /\ ~IsNaN(a) /\ ~IsNaN(b)
    /\ a # b
    /\ IF ~IsFinite(a) THEN a.n < 0
       ELSE IF ~IsFinite(b) THEN b.n > 0
       ELSE RSign(RSub(a, b)) < 0

RLe(a, b) == ~IsNaN(a) /\ ~IsNaN(b) /\ (a = b \/ RLt(a, b))

REq(a, b) == ~IsNaN(a) /\ ~IsNaN(b) /\ a = b

RMax(a, b) == IF RLt(a, b) THEN b ELSE a

(***************************************************************************)
(* 2-vectors (numpy arrays of two doubles).                                *)
(***************************************************************************)
Vec(x, y) == <<x, y>>

VAdd(u, v) == <<RAdd(u[1], v[1]), RAdd(u[2], v[2])>>

VSub(u, v) == <<RSub(u[1], v[1]), RSub(u[2], v[2])>>

VScale(k, v) == <<RMul(k, v[1]), RMul(k, v[2])>>

VDot(u, v) == RAdd(RMul(u[1], v[1]), RMul(u[2], v[2]))

VDivScalar(v, k) == <<RDiv(v[1], k), RDiv(v[2], k)>>

Origin == <<Zero, Zero>>

\* np.linalg.norm on a vector with at most one non-zero component, and on a
\* unit vector with a rounding residue y in its other component:
\* sqrt(1 + y*y) is 1.0 in doubles when y*y < 2^-53
VNorm(v) ==
    CASE v[1].n = 0 /\ v[1].d # 0 -> RAbs(v[2])
      [] v[2].n = 0 /\ v[2].d # 0 -> RAbs(v[1])
      [] RAbs(v[1]) = RInt(1) /\ RLt(RAbs(v[2]), MkF(1, 1, -27, 0)) -> RInt(1)
      [] RAbs(v[2]) = RInt(1) /\ RLt(RAbs(v[1]), MkF(1, 1, -27, 0)) -> RInt(1)

(***************************************************************************)
(* Program constants.                                                      *)
(***************************************************************************)
wind_speed == 1

mixing_height == 50

DefaultSegments == 10

POLLUTANTS == <<"CO", "CO2", "NOx", "PMx">>

Variants == {"disper", "disper_v3", "better_disper", "v5_webapp", "v7_webapp"}

\* disper.py iterates the pollutants in its own order
PollutantsOf(v) ==
    IF v = "disper" THEN <<"NOx", "CO", "CO2", "PMx">> ELSE POLLUTANTS

\* scripts that bucket a record by the hour of its interval
HasHour(v) == v \in {"v5_webapp", "v7_webapp"}

\* scripts that apply a downwind filter
HasFilter(v) == v \in {"better_disper", "v5_webapp", "v7_webapp"}

(***************************************************************************)
(* LaneGeometryRegistry: the module-level tables of each script.           *)
(***************************************************************************)
SideEdges ==
    ("-1232571604" :> "North") @@ ("-29251749#0" :> "East") @@
    ("-4922743#4" :> "West") @@ ("29251749#0" :> "East") @@
    ("1232571604" :> "North") @@ ("617654357#1" :> "South") @@
    ("-617654357#1" :> "South") @@ ("4922743#4" :> "West") @@
    ("237386421" :> "North")

DisperEdges ==
    ("-1232571604" :> "North Out") @@ ("-29251749#0" :> "South In") @@
    ("-4922743#4" :> "West Out") @@ ("29251749#0" :> "South Out") @@
    ("617654357#1" :> "East Out") @@ ("-617654357#1" :> "East In") @@
    ("4922743#4" :> "West In") @@ ("237386421" :> "North In")

DisperV3Edges ==
    ("-1232571604" :> "North Out") @@ ("-29251749#0" :> "South In") @@
    ("-4922743#4" :> "West Out") @@ ("29251749#0" :> "South Out") @@
    ("1232571604" :> "North In") @@ ("617654357#1" :> "East Out") @@
    ("-617654357#1" :> "East In") @@ ("4922743#4" :> "West In") @@
    ("237386421" :> "North In")

BetterDisperEdges ==
    ("-1232571604" :> "North Out") @@ ("-29251749#0" :> "East In") @@
    ("-4922743#4" :> "West Out") @@ ("29251749#0" :> "East Out") @@
    ("1232571604" :> "North In") @@ ("617654357#1" :> "South Out") @@
    ("-617654357#1" :> "South In") @@ ("4922743#4" :> "West In") @@
    ("237386421" :> "North In")

EDGE_TO_LANE(v) ==
    CASE v = "disper" -> DisperEdges
      [] v = "disper_v3" -> DisperV3Edges
      [] v = "better_disper" -> BetterDisperEdges
      [] OTHER -> SideEdges

\* direction unit vectors, as integer pairs
SideDirections ==
    ("North" :> <<0, -1>>) @@ ("South" :> <<0, 1>>) @@
    ("East" :> <<1, 0>>) @@ ("West" :> <<-1, 0>>)

FlowDirections ==
    ("North In" :> <<0, -1>>) @@ ("North Out" :> <<0, 1>>) @@
    ("South In" :> <<0, 1>>) @@ ("South Out" :> <<0, -1>>) @@
    ("East In" :> <<-1, 0>>) @@ ("East Out" :> <<1, 0>>) @@
    ("West In" :> <<1, 0>>) @@ ("West Out" :> <<-1, 0>>)

LANE_DIRECTIONS(v) ==
    IF v \in {"v5_webapp", "v7_webapp"} THEN SideDirections ELSE FlowDirections

\* LANE_TO_SIDE of better_disper.py; the regex (North|South|East|West) of disper_v3.py
LANE_TO_SIDE(lane) ==
    CASE lane \in {"North", "North In", "North Out"} -> "North"
      [] lane \in {"South", "South In", "South Out"} -> "South"
      [] lane \in {"East", "East In", "East Out"} -> "East"
      [] lane \in {"West", "West In", "West Out"} -> "West"

\* lane lengths in metres: 74.5, 24.46, 47.32, 71.45
LANE_LENGTHS(lane) ==
    CASE LANE_TO_SIDE(lane) = "North" -> Dec(745, -1)
      [] LANE_TO_SIDE(lane) = "South" -> Dec(2446, -2)
      [] LANE_TO_SIDE(lane) = "East" -> Dec(4732, -2)
      [] LANE_TO_SIDE(lane) = "West" -> Dec(7145, -2)

DirVec(d) == <<RInt(d[1]), RInt(d[2])>>

(***************************************************************************)
(* SegmentDecomposer.                                                      *)
(***************************************************************************)
SegmentLength(length, num_segments) == RDiv(length, RInt(num_segments))

get_segment_position(start, direction, length, seg_index, num_segments) ==
    LET segment_length == SegmentLength(length, num_segments)
        offset == RMul(RAdd(RInt(seg_index), Dec(5, -1)), segment_length)
    IN  VAdd(start, VScale(offset, direction))

\* np.linspace without its endpoint: num steps of (stop - start) / num
LinspaceOpen(start, stop, num) ==
    [k \in 1..num |-> RAdd(start, RMul(RInt(k - 1), RDiv(RSub(stop, start), RInt(num))))]

\* np.linspace(start, stop, num): start + k * (stop - start) / (num - 1); the
\* single sample of num = 1 is start
Linspace(start, stop, num) ==
    [k \in 1..num |->
        IF num = 1 THEN start
        ELSE RAdd(start, RMul(RInt(k - 1), RDiv(RSub(stop, start), RInt(num - 1))))]

\* v3_better_disper.py: all segment centres of a lane at once, relative to
\* `start`
get_segment_positions(start, direction, length, num_segments) ==
    LET half == RDiv(length, RInt(2))
        inset == RDiv(length, RInt(2 * num_segments))
        relative_positions == Linspace(RAdd(RNeg(half), inset), RSub(half, inset),
                                       num_segments)
    IN  [k \in 1..num_segments |-> VAdd(start, VScale(relative_positions[k], direction))]

\* a lane anchored at the intersection centre instead of centred on it
StartPointAtOrigin(L, direction) == <<Zero, Zero>>

\* start_point = -0.5 * L * direction
StartPoint(L, direction) == VScale(RMul(Dec(-5, -1), L), direction)

\* normed_val * 1e-6 / 3600 (disper.py: normed * G_KM_H_TO_KG_M_S, 2.7778e-7)
EmissionPerM(v, normed_val) ==
    IF v = "disper" THEN RMul(RInt(normed_val), Dec(27778, -11))
    ELSE RDiv(RMul(RInt(normed_val), Dec(1, -6)), RInt(3600))

\* the whole lane's rate given to every segment
SegmentQWholeLane(emission_per_m, L, num_segments) == RMul(emission_per_m, L)

\* Q = emission_per_m * (L / segments_per_lane)
SegmentQ(emission_per_m, L, num_segments) ==
    RMul(emission_per_m, RDiv(L, RInt(num_segments)))

(***************************************************************************)
(* DownwindFilter.                                                         *)
(***************************************************************************)
\* np.degrees(np.arctan2(dy, dx)) on axis-aligned and diagonal vectors;
\* the result is in (-180, 180] and arctan2(0, 0) = 0
Arctan2Deg(dy, dx) ==
    LET sx == RSign(dx)
        sy == RSign(dy)
    IN  CASE sy = 0 /\ sx >= 0 -> 0
          [] sy = 0 /\ sx < 0 -> 180
          [] sx = 0 /\ sy > 0 -> 90
          [] sx = 0 /\ sy < 0 -> -90
          [] RAbs(dx) = RAbs(dy) /\ sx > 0 /\ sy > 0 -> 45
          [] RAbs(dx) = RAbs(dy) /\ sx < 0 /\ sy > 0 -> 135
          [] RAbs(dx) = RAbs(dy) /\ sx < 0 /\ sy < 0 -> -135
          [] RAbs(dx) = RAbs(dy) /\ sx > 0 /\ sy < 0 -> -45

Min(a, b) == IF a <= b THEN a ELSE b

DownwindCenter(wind_deg) == (wind_deg + 180) % 360

\* a difference that does not go the short way round
AngularDiffOneWay(angle, downwind_center) == Abs(angle - downwind_center)

AngularDiff(angle, downwind_center) ==
    Min(Abs(angle - downwind_center), 360 - Abs(angle - downwind_center))

\* the cone boundary left out: a strict comparison
is_downwind_strict(src, receptor, wind_deg, half_angle) ==
    LET delta == VSub(receptor, src)
        angle == (Arctan2Deg(delta[2], delta[1]) + 360) % 360
    IN  AngularDiff(angle, DownwindCenter(wind_deg)) < half_angle

is_downwind(src, receptor, wind_deg, half_angle) ==
    LET delta == VSub(receptor, src)
        angle == (Arctan2Deg(delta[2], delta[1]) + 360) % 360
        downwind_center == DownwindCenter(wind_deg)
        diff == AngularDiff(angle, downwind_center)
    IN  diff <= half_angle

\* math.cos / math.sin of math.radians(a) for a multiple of 90, as doubles:
\* radians(90), radians(180) and radians(270) are not exactly pi/2, pi and
\* 3pi/2, so the components that would be 0 are 6.1232e-17, 1.2246e-16 and
\* -1.8370e-16: once, twice and minus three times the same residue.  The
\* residue is held as 2^-30: its sign and its smallness are all that the
\* norm, the clip and the arccos below use.
Residue(k) == MkF(k, 1, -30, 0)

CosDeg(a) ==
    CASE a = 0 -> RInt(1) [] a = 90 -> Residue(1)
      [] a = 180 -> RInt(-1) [] a = 270 -> Residue(-3)

SinDeg(a) ==
    CASE a = 0 -> Zero [] a = 90 -> RInt(1)
      [] a = 180 -> Residue(2) [] a = 270 -> RInt(-1)

\* better_disper.py: wind_vec, the unit vector at angle wind_direction_deg + 180
wind_vec(wind_direction_deg) ==
    LET a == (wind_direction_deg + 180) % 360
    IN  <<CosDeg(a), SinDeg(a)>>

\* np.clip(x, -1.0, 1.0): NaN stays NaN
Clip1(x) ==
    IF IsNaN(x) THEN NaN
    ELSE IF RLt(x, RInt(-1)) THEN RInt(-1)
    ELSE IF RLt(RInt(1), x) THEN RInt(1) ELSE x

\* 90.00000000000001 and 89.99999999999999, the doubles next to 90, held to
\* eight digits; only their order against the tolerance is used
Degrees90Up == RAdd(RInt(90), Dec(1, -6))

Degrees90Down == RSub(RInt(90), Dec(1, -6))

\* np.degrees(np.arccos(x)) as doubles, for x in {-1, 0, 1, NaN} and for the
\* residues of the wind vector
ArccosDeg(x) ==
    CASE IsNaN(x) -> NaN
      [] x = RInt(1) -> RInt(0)
      [] x = Zero -> RInt(90)
      [] x = RInt(-1) -> RInt(180)
      [] x = Residue(1) -> RInt(90)
      [] x = Residue(-1) -> Degrees90Up
      [] x = Residue(2) -> RInt(90)
      [] x = Residue(-2) -> Degrees90Up
      [] x = Residue(3) -> Degrees90Down
      [] x = Residue(-3) -> Degrees90Up

angle_between(v1, v2) ==
    LET unit_v1 == VDivScalar(v1, VNorm(v1))
        unit_v2 == VDivScalar(v2, VNorm(v2))
        dot == Clip1(VDot(unit_v1, unit_v2))
    IN  ArccosDeg(dot)

(***************************************************************************)
(* ConcentrationModel.                                                     *)
(***************************************************************************)
\* no guard at all: the true distance enters the formula
ClampNone(v, r) == r

\* disper.py: r = max(r, 0.1); every other script: if r == 0: r = 0.1
ClampDistance(v, r) ==
    IF v = "disper" THEN RMax(r, Dec(1, -1))
    ELSE IF REq(r, Zero) THEN Dec(1, -1) ELSE r

\* a concentration that does not fall off with distance
ConcentrationFlat(v, Q, r) ==
    RDiv(RMul(RInt(10), Q), RMul(RInt(wind_speed), RInt(mixing_height)))

\* kg/m3.  disper.py, disper_v3.py: 10 * Q / (U * H_wc * r)
\*         the others:              10 * Q / (U * H * 0.1 * r)
Concentration(v, Q, r) ==
    LET UH == RMul(RInt(wind_speed), RInt(mixing_height))
    IN  IF v \in {"disper", "disper_v3"}
        THEN RDiv(RMul(RInt(10), Q), RMul(UH, r))
        ELSE IF v = "better_disper"
        THEN RDiv(RMul(RInt(10), Q), RMul(UH, RMul(Dec(1, -1), r)))
        ELSE RDiv(RMul(RInt(10), Q), RMul(RMul(UH, Dec(1, -1)), r))

\* kg/m3 -> micrograms/m3
ToMicrograms(C) == RMul(C, Dec(1, 9))


(***************************************************************************)
(* GridSampler (v7_webapp.py).                                             *)
(***************************************************************************)
\* ceiling of a finite rational >= 0, as an integer
RCeil(a) ==
    LET up(e) == IF e > 0 THEN e ELSE 0
        num == a.n * Pow(2, up(a.e2)) * Pow(5, up(a.e5))
        den == a.d * Pow(2, up(-a.e2)) * Pow(5, up(-a.e5))
    IN  (num + den - 1) \div den

\* np.arange(start, stop, step): start + k * step for k < ceil((stop - start) / step)
ARange(start, stop, step) ==
    LET len == RCeil(RDiv(RSub(stop, start), step))
    IN  [k \in 1..len |-> RAdd(start, RMul(RInt(k - 1), step))]

\* x_range = np.arange(lo, hi + grid_res, grid_res), likewise y_range;
\* grid_points = [[x, y] for x in x_range for y in y_range]
grid_points(g) ==
    LET x_range == ARange(g.x_min, RAdd(g.x_max, g.grid_res), g.grid_res)
        y_range == ARange(g.y_min, RAdd(g.y_max, g.grid_res), g.grid_res)
        ny == Len(y_range)
    IN  [k \in 1..(Len(x_range) * ny) |->
            <<x_range[((k - 1) \div ny) + 1], y_range[((k - 1) % ny) + 1]>>]

(***************************************************************************)
(* The /compute endpoint (tanga.py): one total rate per pollutant over all *)
(* lanes of the uploaded feed, one concentration at downwind distance x.   *)
(***************************************************************************)
U_wc == 1

H_wc == 50

N_seg == 10

\* lane.get(name, 0)
LaneAttr(lane, name) == IF name \in DOMAIN lane.attrs THEN lane.attrs[name] ELSE 0

\* Q_seg * N_seg of one lane element and pollutant
LaneEmission(lane, pollutant) ==
    LET L == lane.length
        E_normed == RInt(LaneAttr(lane, pollutant))
        emission_per_m == RDiv(RMul(E_normed, Dec(1, -6)), RInt(3600))
        delta_x == RDiv(L, RInt(N_seg))
        Q_seg == RMul(emission_per_m, delta_x)
    IN  RMul(Q_seg, RInt(N_seg))

\* total_emissions[pollutant] after the loops; `if L <= 0: continue`
RECURSIVE total_emissions(_, _)
total_emissions(lanes, pollutant) ==
    IF lanes = <<>> THEN Zero
    ELSE LET before == total_emissions(SubSeq(lanes, 1, Len(lanes) - 1), pollutant)
             lane == lanes[Len(lanes)]
         IN  IF RLe(lane.length, Zero) THEN before
             ELSE RAdd(before, LaneEmission(lane, pollutant))

\* C_wc in micrograms/m3 as the endpoint reports it
ScreeningConcentration(Q, x) ==
    LET W_wc == RMul(Dec(1, -1), x)
        UHW == RMul(RMul(RInt(U_wc), RInt(H_wc)), W_wc)
    IN  IF RLt(Zero, UHW)
        THEN RMul(RDiv(RMul(RInt(10), Q), UHW), Dec(1, 6))
        ELSE Zero

\* the response: (error, 400) without a file, else the results dict
compute_screening(file, x) ==
    IF ~file.present
    THEN [status |-> 400, results |-> <<>>]
    ELSE [status |-> 200,
          results |->
            [pollutant \in {POLLUTANTS[q] : q \in DOMAIN POLLUTANTS} |->
                LET Q == total_emissions(file.lanes, pollutant)
                IN  [Q_kg_per_s |-> Q,
                     C_wc_ug_per_m3 |-> ScreeningConcentration(Q, x)]]]

(***************************************************************************)
(* State of one run of one script.                                         *)
(***************************************************************************)
VARIABLES
    variant,            \* which script runs
    segments_per_lane,  \* parameter N
    wind_dir_deg,       \* wind_dir_deg / wind_direction_deg
    half_angle_deg,     \* half_angle_deg / angle_tolerance
    grid,               \* v7_webapp.py: the grid parameters; other scripts: <<>>
    receptors,          \* evaluation points: receptors, or grid_points
    feed,               \* the XML feed: one entry per interval/edge/lane, in document order
    wellformed,         \* whether the feed file is well-formed XML (ET.parse succeeds)
    idx,                \* position of the loop in the feed
    pairs,              \* every (pollutant, segment, evaluation point) the loop evaluated: its locals
    rows,               \* the list the script appends to (rows / results / all_concentration_rows)
    out,                \* the aggregated data frames, by name
    files,              \* the result files written
    warnings,           \* the warning lines printed so far, by kind
    pc,                 \* "start", "run", "done", or "crashed" (uncaught exception)
    call,               \* the filter functions on their own: the arguments, or <<>>
    ret,                \* the filter functions on their own: <<value returned>>, or <<>>
    step,               \* tracitry.py: the step counter of the simulation loop
    vehicle_times,      \* tracitry.py: the dict veh_id -> {'enter', 'vtype', 'exit'}
    inserted,           \* tracitry.py: the keys of vehicle_times in insertion order
    observed,           \* tracitry.py: what each simulation step showed (the inputs so far)
    junction_csv,       \* tracitry.py: the rows written to junction_times.csv
    durations,          \* tracitry.py: the list the junction average is taken of
    traci_pc,           \* tracitry.py: "idle", "loop", "closed" or "written"
    input_csv,          \* try_mo/A.py: the manual count, [header, rows]
    existing_file,      \* try_mo/A.py: v5_trips.trips.xml as the script finds it
    row_no,             \* try_mo/A.py: the row the reader is at
    parsed_rows,        \* try_mo/A.py: the accepted rows (depart, vtype, from, to)
    trips_xml,          \* try_mo/A.py: v5_trips.trips.xml as it is on disk
    countt,             \* try_mo/A.py: the number of trips added
    merge_pc,           \* try_mo/A.py: "idle", "start", "rows", "merge", "done" or an error
    raw_csv,            \* generate_trips_from_raw_csv_v6.py: the input, [header, rows]
    raw_parsed_rows,    \* generate_trips_from_raw_csv_v6.py: parsed_rows
    output_trips,       \* generate_trips_from_raw_csv_v6.py: v7_trips.trips.xml, <<>> until written
    raw_pc              \* generate_trips_from_raw_csv_v6.py: "idle", "start", "read", "done" or an error

runvars == <<variant, segments_per_lane, wind_dir_deg, half_angle_deg, grid,
             receptors, feed, wellformed, idx, pairs, rows, out, files, warnings, pc>>

fnvars == <<call, ret>>

tracivars == <<step, vehicle_times, inserted, observed, junction_csv, durations, traci_pc>>

\* the variables of the scripts beside the dispersion pipeline
mergevars == <<input_csv, existing_file, row_no, parsed_rows, trips_xml, countt, merge_pc>>

rawvars == <<raw_csv, raw_parsed_rows, output_trips, raw_pc>>

toolvars == <<tracivars, mergevars, rawvars>>

vars == <<runvars, fnvars, toolvars>>

config == <<variant, segments_per_lane, wind_dir_deg, half_angle_deg, grid,
            receptors, feed, wellformed>>

\* a default of 1 for a rate attribute that is missing
NormedDefaultOne(rec, p) == IF p \in DOMAIN rec.attrs THEN rec.attrs[p] ELSE 1

\* lane.get(f"{pollutant}_normed", 0)
Normed(rec, p) == IF p \in DOMAIN rec.attrs THEN rec.attrs[p] ELSE 0

\* a run that puts every interval into the first hour
HourOfFirst(rec) == 0

\* hour = int(start_time_sec // 3600)
HourOf(rec) == rec.begin \div 3600

(***************************************************************************)
(* The body of the innermost loop: one pollutant, one segment, one         *)
(* evaluation point.  `kept` is false when the filter's `continue` is      *)
(* taken; the concentration fields are then never computed by the script.  *)
(***************************************************************************)
Keeps(v, pos, receptor, angle) ==
    CASE v = "better_disper" -> ~RLt(RInt(half_angle_deg), angle)
      [] v \in {"v5_webapp", "v7_webapp"} ->
            is_downwind(pos, receptor, wind_dir_deg, half_angle_deg)
      [] OTHER -> TRUE

PairEval(k, rec, p, i, j) ==
    LET v == variant
        lane == EDGE_TO_LANE(v)[rec.edge]
        direction == DirVec(LANE_DIRECTIONS(v)[lane])
        L == LANE_LENGTHS(lane)
        start_point == StartPoint(L, direction)
        emission_per_m == EmissionPerM(v, Normed(rec, p))
        pos == get_segment_position(start_point, direction, L, i, segments_per_lane)
        Q == SegmentQ(emission_per_m, L, segments_per_lane)
        receptor == receptors[j]
        dist == VNorm(VSub(pos, receptor))
        r == ClampDistance(v, dist)
        angle == IF v = "better_disper"
                 THEN angle_between(VSub(receptor, pos), wind_vec(wind_dir_deg))
                 ELSE Zero
        C_i == Concentration(v, Q, r)
    IN  [k |-> k, hour |-> HourOf(rec), lane |-> lane, pollutant |-> p,
         normed |-> Normed(rec, p), emission_per_m |-> emission_per_m,
         segment_index |-> i, pos |-> pos,
         segment_length |-> SegmentLength(L, segments_per_lane),
         receptor_id |-> j - 1, receptor |-> receptor,
         dist |-> dist, r |-> r, angle |-> angle, Q |-> Q,
         kept |-> Keeps(v, pos, receptor, angle),
         C_kg |-> C_i, C |-> ToMicrograms(C_i)]

\* disper.py: `if attr not in lane.attrib: continue`
PollutantsRun(rec) ==
    IF variant = "disper"
    THEN SelectSeq(PollutantsOf(variant), LAMBDA p : p \in DOMAIN rec.attrs)
    ELSE PollutantsOf(variant)

\* float(...) of an attribute that is not a number raises ValueError
Malformed(rec) ==
    \E q \in DOMAIN PollutantsRun(rec) : PollutantsRun(rec)[q] \in rec.bad

\* the pollutants whose loop body completes: those before the first attribute
\* that is not a number
PollutantsDone(rec) ==
    LET ps == PollutantsRun(rec)
        stop == {q \in DOMAIN ps : ps[q] \in rec.bad}
    IN  IF stop = {} THEN ps
        ELSE SubSeq(ps, 1, (CHOOSE q \in stop : \A q2 \in stop : q <= q2) - 1)

\* the loop nest over pollutants, segments and evaluation points, in loop order
LanePairs(k, rec) ==
    LET ps == PollutantsDone(rec)
        N == segments_per_lane
        R == Len(receptors)
    IN  [m \in 1..(Len(ps) * N * R) |->
            PairEval(k, rec, ps[((m - 1) \div (N * R)) + 1],
                     ((m - 1) \div R) % N, ((m - 1) % R) + 1)]

\* a "sum" that keeps only the last contribution of the group
SumCLast(rs) == IF rs = <<>> THEN Zero ELSE rs[Len(rs)].C

RECURSIVE SumC(_)
SumC(rs) ==
    IF rs = <<>> THEN Zero
    ELSE RAdd(SumC(SubSeq(rs, 1, Len(rs) - 1)), rs[Len(rs)].C)

RECURSIVE SumCkg(_)
SumCkg(rs) ==
    IF rs = <<>> THEN Zero
    ELSE RAdd(SumCkg(SubSeq(rs, 1, Len(rs) - 1)), rs[Len(rs)].C_kg)

\* the dict appended for one kept pair
RowOf(c) ==
    CASE variant = "v5_webapp" ->
            [hour |-> c.hour, lane |-> c.lane, pollutant |-> c.pollutant,
             segment_index |-> c.segment_index, x |-> c.pos[1], y |-> c.pos[2],
             receptor_id |-> c.receptor_id, distance_to_receptor_m |-> c.r,
             Q_kg_per_s |-> c.Q, C |-> c.C]
      [] variant = "v7_webapp" ->
            [hour |-> c.hour, pollutant |-> c.pollutant,
             x |-> c.receptor[1], y |-> c.receptor[2], C |-> c.C]
      [] variant = "disper_v3" ->
            [lane |-> c.lane, pollutant |-> c.pollutant,
             segment_index |-> c.segment_index, x |-> c.pos[1], y |-> c.pos[2],
             receptor_idx |-> c.receptor_id, receptor_x |-> c.receptor[1],
             receptor_y |-> c.receptor[2], distance_to_receptor_m |-> c.r,
             Q_kg_per_s |-> c.Q, C_i_kg_per_m3 |-> c.C_kg, C |-> c.C]
      [] variant = "better_disper" ->
            [side |-> LANE_TO_SIDE(c.lane), pollutant |-> c.pollutant,
             segment_index |-> c.segment_index, x |-> c.pos[1], y |-> c.pos[2],
             Q_kg_per_s |-> c.Q, C_i_kg_per_m3 |-> c.C_kg, C |-> c.C,
             distance_to_receptor_m |-> c.r, angle_deg |-> c.angle]

\* disper.py: one result per lane and pollutant, total_C * 1e9
DisperRows(rec, cs) ==
    LET ps == PollutantsDone(rec)
    IN  [q \in 1..Len(ps) |->
            [lane |-> EDGE_TO_LANE(variant)[rec.edge], pollutant |-> ps[q],
             C |-> ToMicrograms(SumCkg(SelectSeq(cs, LAMBDA c : c.pollutant = ps[q])))]]

LaneRows(rec, cs) ==
    IF variant = "disper" THEN DisperRows(rec, cs)
    ELSE LET kept == SelectSeq(cs, LAMBDA c : c.kept)
         IN  [m \in 1..Len(kept) |-> RowOf(kept[m])]

(***************************************************************************)
(* Aggregator: df.groupby(keys)[column].sum()                              *)
(***************************************************************************)
\* the data frames each script groups, by the name it gives them
AggregationNames ==
    CASE variant = "v5_webapp" -> {"receptor_totals"}
      [] variant = "v7_webapp" -> {"total_df"}
      [] variant = "disper" -> {"df"}
      [] variant = "disper_v3" ->
            {"lane_pollutant_agg", "dir_pollutant_agg", "flow_pollutant_agg",
             "overall_pollutant_agg", "receptor_pollutant_agg"}
      [] variant = "better_disper" -> {}

\* a pattern that knows inbound lanes only
FlowOfInOnly(lane) ==
    IF lane \in {"North In", "South In", "East In", "West In"} THEN "In" ELSE "NaN"

\* str.extract(r"(In|Out)"): NaN for a lane name with neither word
FlowOf(lane) ==
    CASE lane \in {"North In", "South In", "East In", "West In"} -> "In"
      [] lane \in {"North Out", "South Out", "East Out", "West Out"} -> "Out"
      [] OTHER -> "NaN"

\* a grouping by the pollutant alone
KeyOfPollutant(name, r) == <<r.pollutant>>

\* the groupby columns of each data frame, read off one row
KeyOf(name, r) ==
    CASE name = "receptor_totals" -> <<r.hour, r.pollutant, r.receptor_id>>
      [] name = "total_df" -> <<r.hour, r.pollutant, r.x, r.y>>
      [] name = "df" -> <<r.lane, r.pollutant>>
      [] name = "lane_pollutant_agg" -> <<r.lane, r.pollutant>>
      [] name = "dir_pollutant_agg" -> <<LANE_TO_SIDE(r.lane), r.pollutant>>
      [] name = "flow_pollutant_agg" -> <<FlowOf(r.lane), r.pollutant>>
      [] name = "overall_pollutant_agg" -> <<r.pollutant>>
      [] name = "receptor_pollutant_agg" ->
            <<r.receptor_idx, r.receptor_x, r.receptor_y, r.pollutant>>

\* groupby leaves out the rows whose key holds a NaN (dropna=True)
HasNaN(name, key) == name = "flow_pollutant_agg" /\ key[1] = "NaN"

GroupBySum(rs, name) ==
    LET keys == {key \in {KeyOf(name, rs[m]) : m \in DOMAIN rs} : ~HasNaN(name, key)}
    IN  [key \in keys |-> SumC(SelectSeq(rs, LAMBDA r : KeyOf(name, r) = key))]

Aggregations(rs) == [name \in AggregationNames |-> GroupBySum(rs, name)]

ResultFiles ==
    CASE variant = "v5_webapp" -> {"gsa_hourly/v5-total_receptor_concentrations.csv"}
      [] variant = "v7_webapp" -> {"gsa_hourly/total_receptor_concentrations.csv"}
      [] variant = "disper" -> {}
      [] variant = "disper_v3" ->
            {"for_sd/sd_lane_concentrations.csv", "for_sd/sd_direction_concentrations.csv",
             "for_sd/sd_flow_concentrations.csv", "for_sd/sd_total_concentrations.csv",
             "for_sd/sd_receptor_concentrations.csv"}
      [] variant = "better_disper" -> {"for_sd/sd_side_segments_concentration.csv"}

(***************************************************************************)
(* Actions of a run.                                                       *)
(***************************************************************************)
\* `tree = ET.parse(file_path)`: ParseError on a feed that is not well-formed
ParseFeed ==
    /\ pc = "start"
    /\ pc' = IF wellformed THEN "run" ELSE "crashed"
    /\ UNCHANGED <<toolvars, config, idx, pairs, rows, out, files, warnings, fnvars>>

\* `lane_name = EDGE_TO_LANE.get(edge_id)`; `if lane_name is None: continue`;
\* better_disper.py prints "Warning: Lane name not found ..." first
SkipEdge ==
    /\ pc = "run"
    /\ idx <= Len(feed)
    /\ feed[idx].edge \notin DOMAIN EDGE_TO_LANE(variant)
    /\ idx' = idx + 1
    /\ warnings' = IF variant = "better_disper"
                   THEN Append(warnings, "lane_not_found") ELSE warnings
    /\ UNCHANGED <<toolvars, config, pairs, rows, out, files, pc, fnvars>>

\* better_disper.py prints " [!] Angle ... exceeds tolerance" for each pair it skips
AngleWarnings(cs) ==
    IF variant = "better_disper"
    THEN [m \in 1..Len(SelectSeq(cs, LAMBDA c : ~c.kept)) |-> "angle_exceeds"]
    ELSE <<>>

\* one lane element of a known edge: all pollutants, segments and evaluation
\* points; an attribute that is not a number ends the run with ValueError
ProcessLane ==
    /\ pc = "run"
    /\ idx <= Len(feed)
    /\ feed[idx].edge \in DOMAIN EDGE_TO_LANE(variant)
    /\ LET cs == LanePairs(idx, feed[idx])
       IN  /\ pairs' = pairs \o cs
           /\ rows' = rows \o LaneRows(feed[idx], cs)
           /\ warnings' = warnings \o AngleWarnings(cs)
    /\ IF Malformed(feed[idx])
       THEN pc' = "crashed" /\ idx' = idx
       ELSE pc' = pc /\ idx' = idx + 1
    /\ UNCHANGED <<toolvars, config, out, files, fnvars>>

\* an export that does not wait for the end of the loops
FeedConsumedAnytime == TRUE

\* the loops over the feed have ended
FeedConsumed == idx > Len(feed)

\* after the loops: build the data frame, group, sum, write.
\* pd.DataFrame([]) has no columns, so groupby (or the column access of
\* disper_v3.py) raises KeyError on an empty list; better_disper.py tests
\* len(results) == 0 and only prints " [!] No results to save."
Aggregate ==
    /\ pc = "run"
    /\ FeedConsumed
    /\ IF rows = <<>>
       THEN /\ pc' = IF variant = "better_disper" THEN "done" ELSE "crashed"
            /\ warnings' = IF variant = "better_disper"
                           THEN Append(warnings, "no_results") ELSE warnings
            /\ UNCHANGED <<out, files>>
       ELSE /\ out' = Aggregations(rows)
            /\ files' = ResultFiles
            /\ pc' = "done"
            /\ UNCHANGED warnings
    /\ UNCHANGED <<toolvars, config, idx, pairs, rows, fnvars>>

(***************************************************************************)
(* The pure filter functions, called on their own.                         *)
(***************************************************************************)
CallIsDownwind ==
    /\ call # <<>> /\ ret = <<>>
    /\ call.fn = "is_downwind"
    /\ ret' = <<is_downwind(call.src, call.receptor, call.wind_deg, call.half_angle)>>
    /\ UNCHANGED <<toolvars, runvars, call>>

\* better_disper.py: `angle = angle_between(vec_to_receptor, wind_vec)`;
\* the pair is skipped when `angle > angle_tolerance`
CallAngleFilter ==
    /\ call # <<>> /\ ret = <<>>
    /\ call.fn = "angle_between"
    /\ ret' = <<~RLt(RInt(call.half_angle),
                     angle_between(VSub(call.receptor, call.src), wind_vec(call.wind_deg)))>>
    /\ UNCHANGED <<toolvars, runvars, call>>

\* POST /compute with an uploaded feed and a form field `distance`
CallComputeScreening ==
    /\ call # <<>> /\ ret = <<>>
    /\ call.fn = "compute_screening"
    /\ ret' = <<compute_screening(call.file, call.distance)>>
    /\ UNCHANGED <<toolvars, runvars, call>>

\* the module-level grid construction of v7_webapp.py, for given parameters
CallGridPoints ==
    /\ call # <<>> /\ ret = <<>>
    /\ call.fn = "grid_points"
    /\ ret' = <<grid_points(call.g)>>
    /\ UNCHANGED <<toolvars, runvars, call>>

\* v3_better_disper.py: the segment centres of one lane, start_point at the
\* origin
CallSegmentPositions ==
    /\ call # <<>> /\ ret = <<>>
    /\ call.fn = "get_segment_positions"
    /\ ret' = <<get_segment_positions(Origin, DirVec(SideDirections[call.lane]),
                                      LANE_LENGTHS(call.lane), call.num_segments)>>
    /\ UNCHANGED <<toolvars, runvars, call>>

(***************************************************************************)
(* Bounded inputs.                                                         *)
(***************************************************************************)
MaxSegments == 3

MaxFeed == 2

WindSteps == 24

HalfSteps == 12

SegmentChoices == (1..MaxSegments) \cup {DefaultSegments}

NoAttrs == [p \in {} |-> 0]

\* lane elements of the emission feed: interval begin (s), edge id, *_normed
\* attributes (g/km/h), and the attributes whose text is not a number
FeedRecords ==
    { [begin |-> 0, edge |-> "237386421", attrs |-> ("CO" :> 100) @@ ("NOx" :> 30), bad |-> {}],
      [begin |-> 1800, edge |-> "1232571604", attrs |-> ("CO" :> 50), bad |-> {}],
      [begin |-> 3600, edge |-> "-1232571604", attrs |-> ("CO" :> 0) @@ ("CO2" :> 7000), bad |-> {}],
      [begin |-> 0, edge |-> "-617654357#1",
       attrs |-> ("CO" :> 100) @@ ("CO2" :> 3000) @@ ("NOx" :> 0) @@ ("PMx" :> 9),
       bad |-> {}],
      [begin |-> 3600, edge |-> "4922743#4", attrs |-> ("PMx" :> 2), bad |-> {}],
      [begin |-> 0, edge |-> "617654357#1", attrs |-> NoAttrs, bad |-> {}],
      [begin |-> 0, edge |-> "gneE0", attrs |-> ("CO" :> 100), bad |-> {}] }

NorthRecord == [begin |-> 0, edge |-> "237386421", attrs |-> ("CO" :> 100) @@ ("NOx" :> 30), bad |-> {}]

NorthZeroRecord ==
    [begin |-> 3600, edge |-> "-1232571604", attrs |-> ("CO" :> 0) @@ ("CO2" :> 7000), bad |-> {}]

UnknownRecord == [begin |-> 0, edge |-> "gneE0", attrs |-> ("CO" :> 100), bad |-> {}]

\* a lane element whose NOx_normed attribute is not a number
BadRecord ==
    [begin |-> 0, edge |-> "237386421", attrs |-> ("CO" :> 100) @@ ("NOx" :> 0),
     bad |-> {"NOx"}]

\* a lane element of an unknown edge whose CO_normed attribute is not a number:
\* the edge is skipped before the attribute is read
UnknownBadRecord == [begin |-> 0, edge |-> "gneE0", attrs |-> ("CO" :> 0), bad |-> {"CO"}]

Feeds(n) == UNION {[1..m -> FeedRecords] : m \in 1..n}

\* receptor lists; every point lies on a coordinate axis
ReceptorChoices ==
    { <<Origin>>,
      <<<<Zero, Dec(5, -2)>>>>,
      <<<<Zero, Dec(33525, -3)>>>>,
      <<Origin, <<Zero, Dec(5, -2)>>, <<Zero, RInt(30)>>>>,
      <<<<RInt(20), Zero>>>> }

\* grids of v7_webapp.py whose points lie on the y axis
GridChoices ==
    { [x_min |-> Zero, x_max |-> Zero, y_min |-> Zero, y_max |-> Zero,
       grid_res |-> RInt(1)],
      [x_min |-> Zero, x_max |-> Zero, y_min |-> RInt(-1), y_max |-> RInt(1),
       grid_res |-> RInt(1)],
      [x_min |-> Zero, x_max |-> Zero, y_min |-> Zero, y_max |-> Dec(1, -1),
       grid_res |-> Dec(5, -2)] }

WindChoices(v) ==
    IF v = "better_disper" THEN {0, 90, 180, 270} ELSE {0, 90, 180, 217, 270}

HalfChoices == {0, 45, 90}

\* every source-target delta of the run is axis-aligned: each evaluation point
\* lies on the axis of each lane the feed names
OnAxis(v, rs, f) ==
    \A k \in DOMAIN f : \A j \in DOMAIN rs :
        f[k].edge \in DOMAIN EDGE_TO_LANE(v) =>
            LET d == LANE_DIRECTIONS(v)[EDGE_TO_LANE(v)[f[k].edge]]
            IN  IF d[1] = 0 THEN rs[j][1] = Zero ELSE rs[j][2] = Zero

Scenario(v, N, w, h, g, rs, f) ==
    [variant |-> v, segments_per_lane |-> N, wind_dir_deg |-> w,
     half_angle_deg |-> h, grid |-> g, receptors |-> rs, feed |-> f,
     wellformed |-> TRUE]

\* evaluation points of a script: <<grid, points>>.  v7_webapp.py samples a
\* grid, disper.py has one receptor, the others a receptor list
EvalChoices(v) ==
    IF v = "v7_webapp" THEN {<<g, grid_points(g)>> : g \in GridChoices}
    ELSE IF v = "disper" THEN {<<<<>>, rs>> : rs \in {r \in ReceptorChoices : Len(r) = 1}}
    ELSE {<<<<>>, rs>> : rs \in ReceptorChoices}

\* the evaluation point at the centre of the intersection only
OriginOnly(v) == {ev \in EvalChoices(v) : ev[2] = <<Origin>>}

\* the wind direction each script is shipped with, or a cardinal one
DefaultWind(v) == IF v \in {"v5_webapp", "v7_webapp"} THEN 217 ELSE 0

\* every lane and edge, every segment count
SegmentScenarios ==
    UNION { { Scenario(v, N, DefaultWind(v), 45, ev[1], ev[2], <<rec>>) :
                N \in SegmentChoices, ev \in OriginOnly(v), rec \in FeedRecords } :
            v \in Variants }

\* every wind direction, half angle and evaluation point
WindScenarios ==
    UNION { { Scenario(v, N, w, h, ev[1], ev[2], f) :
                N \in 1..2, w \in WindChoices(v), h \in HalfChoices,
                ev \in EvalChoices(v),
                f \in {<<NorthRecord>>, <<NorthZeroRecord, UnknownRecord>>} } :
            v \in {"better_disper", "v5_webapp", "v7_webapp"} }

\* every evaluation point for the scripts without filter
ReceptorScenarios ==
    UNION { { Scenario(v, 1, 0, 45, ev[1], ev[2], f) :
                ev \in EvalChoices(v),
                f \in {<<NorthRecord>>, <<NorthZeroRecord, UnknownRecord>>} } :
            v \in {"disper", "disper_v3"} }

\* every feed up to MaxFeed lane elements, in every order
FeedScenarios ==
    UNION { { Scenario(v, 2, 270, 90, ev[1], ev[2], f) :
                ev \in OriginOnly(v), f \in Feeds(MaxFeed) } :
            v \in Variants }

\* the worked scenario: North lane, ten segments, rate 100, receptor at the
\* centre, wind such that the filter keeps the northern segments
WorkedScenarios ==
    UNION { { Scenario(v, DefaultSegments, 90, 45, ev[1], ev[2], <<NorthRecord>>) :
                ev \in OriginOnly(v) } :
            v \in {"v5_webapp", "v7_webapp", "better_disper"} }

\* segment counts that are not positive
ConfigScenarios ==
    UNION { { Scenario(v, N, DefaultWind(v), 45, ev[1], ev[2], f) :
                N \in {0, -1}, ev \in OriginOnly(v),
                f \in {<<NorthRecord>>, <<UnknownRecord, NorthRecord>>} } :
            v \in Variants }

\* feeds with an attribute that is not a number, and files that are not XML
MalformedScenarios ==
    UNION { { [Scenario(v, 1, 270, 90, ev[1], ev[2], f) EXCEPT !.wellformed = ok] :
                ev \in OriginOnly(v), ok \in BOOLEAN,
                f \in {<<BadRecord>>, <<NorthRecord, BadRecord>>,
                       <<BadRecord, NorthRecord>>, <<UnknownRecord, BadRecord>>,
                       <<UnknownBadRecord, NorthRecord>>} } :
            v \in Variants }

Scenarios ==
    {s \in SegmentScenarios \cup WindScenarios \cup ReceptorScenarios
            \cup FeedScenarios \cup WorkedScenarios \cup ConfigScenarios
            \cup MalformedScenarios :
        OnAxis(s.variant, s.receptors, s.feed)}

InitRun(s) ==
    /\ variant = s.variant
    /\ segments_per_lane = s.segments_per_lane
    /\ wind_dir_deg = s.wind_dir_deg
    /\ half_angle_deg = s.half_angle_deg
    /\ grid = s.grid
    /\ receptors = s.receptors
    /\ feed = s.feed
    /\ wellformed = s.wellformed
    /\ idx = 1
    /\ pairs = <<>>
    /\ rows = <<>>
    /\ out = <<>>
    /\ files = {}
    /\ warnings = <<>>
    /\ pc = "start"

\* the junction tracker before traci.start
TraciInit(p) ==
    /\ step = 0
    /\ vehicle_times = <<>>
    /\ inserted = <<>>
    /\ observed = <<>>
    /\ junction_csv = <<>>
    /\ durations = <<>>
    /\ traci_pc = p

\* try_mo/A.py before it is started
MergeIdle ==
    /\ input_csv = <<>>
    /\ existing_file = <<>>
    /\ row_no = 1
    /\ parsed_rows = <<>>
    /\ trips_xml = <<>>
    /\ countt = 0
    /\ merge_pc = "idle"

\* generate_trips_from_raw_csv_v6.py before it is started
RawIdle ==
    /\ raw_csv = <<>>
    /\ raw_parsed_rows = <<>>
    /\ output_trips = <<>>
    /\ raw_pc = "idle"

ToolsIdle == TraciInit("idle") /\ MergeIdle /\ RawIdle

Init ==
    /\ \E s \in Scenarios : InitRun(s)
    /\ call = <<>>
    /\ ret = <<>>
    /\ ToolsIdle

Next == ParseFeed \/ SkipEdge \/ ProcessLane \/ Aggregate

Spec == Init /\ [][Next]_vars

(***************************************************************************)
(* The filter functions on their own: every lattice bearing, wind          *)
(* direction and half angle.                                               *)
(***************************************************************************)
\* a target at polar angle `bearing` (degrees, counter-clockwise from +x) from the source
LatticeDirs ==
    { [bearing |-> 0, vec |-> <<1, 0>>], [bearing |-> 45, vec |-> <<1, 1>>],
      [bearing |-> 90, vec |-> <<0, 1>>], [bearing |-> 135, vec |-> <<-1, 1>>],
      [bearing |-> 180, vec |-> <<-1, 0>>], [bearing |-> 225, vec |-> <<-1, -1>>],
      [bearing |-> 270, vec |-> <<0, -1>>], [bearing |-> 315, vec |-> <<1, -1>>],
      [bearing |-> -1, vec |-> <<0, 0>>] }

Sources == {Origin, <<RInt(3), Dec(-25, -1)>>}

Calls ==
    { [fn |-> "is_downwind", src |-> s, receptor |-> VAdd(s, DirVec(t.vec)),
       bearing |-> t.bearing, vec |-> t.vec, wind_deg |-> 15 * w, half_angle |-> 15 * h] :
        s \in Sources, t \in LatticeDirs, w \in 0..(WindSteps - 1), h \in 0..HalfSteps }
    \cup
    { [fn |-> "angle_between", src |-> s, receptor |-> VAdd(s, DirVec(t.vec)),
       bearing |-> t.bearing, vec |-> t.vec, wind_deg |-> 90 * w, half_angle |-> 15 * h] :
        s \in Sources, t \in {u \in LatticeDirs : u.bearing % 90 # 45},
        w \in 0..3, h \in 0..HalfSteps }

\* lane elements as the endpoint reads them: `length` and the *_normed attributes
UploadedLanes ==
    { [length |-> L, attrs |-> a] :
        L \in {Zero, RInt(-1), Dec(745, -1), Dec(2446, -2)},
        a \in {NoAttrs, ("CO" :> 100) @@ ("NOx" :> 30), ("CO" :> 0) @@ ("CO2" :> 7000)} }

Uploads ==
    { [present |-> FALSE, lanes |-> <<>>], [present |-> TRUE, lanes |-> <<>>] }
    \cup { [present |-> TRUE, lanes |-> <<l>>] : l \in UploadedLanes }
    \cup { [present |-> TRUE, lanes |-> <<l1, l2>>] : l1, l2 \in UploadedLanes }

\* the form field `distance` (100 when it is not sent)
Distances == {RInt(100), Dec(33525, -3), Dec(1, -1), Dec(5, -2), Zero, RInt(-1)}

ScreeningCalls ==
    { [fn |-> "compute_screening", file |-> f, distance |-> x] :
        f \in Uploads, x \in Distances }

\* bounding boxes and resolutions of the grid; the widths are not all
\* multiples of the resolution
GridBoxes ==
    { [x_min |-> x0, x_max |-> RAdd(x0, w), y_min |-> y0, y_max |-> RAdd(y0, h),
       grid_res |-> res] :
        x0 \in {RInt(-1), Zero}, y0 \in {RInt(-1), Zero},
        w \in {Zero, RInt(1), Dec(15, -1), RInt(2)},
        h \in {Zero, RInt(1), Dec(15, -1), RInt(2)},
        res \in {RInt(1), Dec(5, -1)} }

GridCalls == { [fn |-> "grid_points", g |-> g] : g \in GridBoxes }

\* every lane of the registry, with 1..MaxSegments segments and with the
\* scripts' own count
SegmentCalls ==
    { [fn |-> "get_segment_positions", lane |-> lane, num_segments |-> N] :
        lane \in DOMAIN SideDirections, N \in (1..MaxSegments) \cup {DefaultSegments} }

InitFn ==
    /\ InitRun(Scenario("v5_webapp", DefaultSegments, 217, 45, <<>>, <<Origin>>, <<>>))
    /\ call \in Calls \cup ScreeningCalls \cup GridCalls \cup SegmentCalls
    /\ ret = <<>>
    /\ ToolsIdle

NextFn == CallIsDownwind \/ CallAngleFilter \/ CallComputeScreening \/ CallGridPoints
            \/ CallSegmentPositions

SpecFn == InitFn /\ [][NextFn]_vars

(***************************************************************************)
(* The junction tracker (tracitry.py, tracitry-v2.py): a TraCI loop that   *)
(* notes when each vehicle is first seen inside the junction polygon and   *)
(* when it is first seen outside afterwards.                               *)
(***************************************************************************)
STEP_LENGTH == 1

MaxSteps == 3

Vehicles == {"veh0", "veh1"}

\* traci.vehicle.getTypeID
TypeID(veh_id) == IF veh_id = "veh0" THEN "car" ELSE "bus"

\* what one simulation step shows: the id list, in the order TraCI returns it,
\* and which of its vehicles are inside the polygon
Sightings ==
    { [ids |-> ids, inside |-> ins] :
        ids \in {<<>>, <<"veh0">>, <<"veh1">>, <<"veh0", "veh1">>, <<"veh1", "veh0">>},
        ins \in SUBSET Vehicles }

StepsSeen == {sg \in Sightings : sg.inside \subseteq {sg.ids[q] : q \in DOMAIN sg.ids}}

\* an exit time that follows the vehicle: written at every step outside
trackLastExit(times, veh_id, inside, now) ==
    IF inside
    THEN IF veh_id \notin DOMAIN times
         THEN times @@ (veh_id :> [enter |-> now * STEP_LENGTH, vtype |-> TypeID(veh_id)])
         ELSE times
    ELSE IF veh_id \in DOMAIN times
         THEN [times EXCEPT ![veh_id] =
                  [enter |-> @.enter, vtype |-> @.vtype, exit |-> now * STEP_LENGTH]]
         ELSE times

\* the body of `for veh_id in traci.vehicle.getIDList()` for one vehicle
track(times, veh_id, inside, now) ==
    IF inside
    THEN IF veh_id \notin DOMAIN times
         THEN times @@ (veh_id :> [enter |-> now * STEP_LENGTH, vtype |-> TypeID(veh_id)])
         ELSE times
    ELSE IF veh_id \in DOMAIN times /\ "exit" \notin DOMAIN times[veh_id]
         THEN [times EXCEPT ![veh_id] =
                  [enter |-> @.enter, vtype |-> @.vtype, exit |-> now * STEP_LENGTH]]
         ELSE times

\* the for loop over one id list
RECURSIVE trackAll(_, _, _, _)
trackAll(times, ids, inside, now) ==
    IF ids = <<>> THEN times
    ELSE trackAll(track(times, Head(ids), Head(ids) \in inside, now), Tail(ids), inside, now)

\* one iteration of `while traci.simulation.getMinExpectedNumber() > 0`
TraciStep ==
    /\ traci_pc = "loop"
    /\ step < MaxSteps
    /\ \E sg \in StepsSeen :
          /\ vehicle_times' = trackAll(vehicle_times, sg.ids, sg.inside, step)
          /\ inserted' = inserted \o SelectSeq(sg.ids,
                              LAMBDA v : v \in sg.inside /\ v \notin DOMAIN vehicle_times)
          /\ observed' = Append(observed, sg)
    /\ step' = step + 1
    /\ UNCHANGED <<junction_csv, durations, traci_pc, runvars, fnvars, mergevars, rawvars>>

\* no vehicle is expected any more: the loop ends, traci.close()
TraciClose ==
    /\ traci_pc = "loop"
    /\ traci_pc' = "closed"
    /\ UNCHANGED <<step, vehicle_times, inserted, observed, junction_csv, durations,
                   runvars, fnvars, mergevars, rawvars>>

\* the vehicles of the dict, in its order, that have both times
Complete == SelectSeq(inserted, LAMBDA v : "exit" \in DOMAIN vehicle_times[v])

\* the per-vehicle CSV and the list of durations
TraciWrite ==
    /\ traci_pc = "closed"
    /\ junction_csv' = [m \in DOMAIN Complete |->
                          [vehicle_id |-> Complete[m],
                           vtype |-> vehicle_times[Complete[m]].vtype,
                           entry |-> vehicle_times[Complete[m]].enter,
                           exit |-> vehicle_times[Complete[m]].exit]]
    /\ durations' = [m \in DOMAIN Complete |->
                        vehicle_times[Complete[m]].exit - vehicle_times[Complete[m]].enter]
    /\ traci_pc' = "written"
    /\ UNCHANGED <<step, vehicle_times, inserted, observed, runvars, fnvars, mergevars, rawvars>>

InitTraci ==
    /\ InitRun(Scenario("v5_webapp", DefaultSegments, 217, 45, <<>>, <<Origin>>, <<>>))
    /\ call = <<>>
    /\ ret = <<>>
    /\ TraciInit("loop")
    /\ MergeIdle
    /\ RawIdle

NextTraci == TraciStep \/ TraciClose \/ TraciWrite

SpecTraci == InitTraci /\ [][NextTraci]_vars

(***************************************************************************)
(* Properties of the segment decomposition.                                *)
(***************************************************************************)
Half(L) == RMul(Dec(5, -1), L)

\* (i + 0.5) * (L / N) - L / 2, as one fraction
CentreOffset(L, i, N) == RMul(MkR(2 * i + 1 - N, 2 * N, 0), L)

RECURSIVE SumQ(_)
SumQ(cs) ==
    IF cs = <<>> THEN Zero
    ELSE RAdd(SumQ(SubSeq(cs, 1, Len(cs) - 1)), cs[Len(cs)].Q)

\* the pairs of one lane element, pollutant and evaluation point: one per segment
SegmentsLike(c) ==
    SelectSeq(pairs, LAMBDA x : x.k = c.k /\ x.pollutant = c.pollutant
                                /\ x.receptor_id = c.receptor_id)

\* C1: for every lane, every N >= 1 and every segment index i in [0, N), segment i
\* is placed at anchor + d * (i + 0.5) * (L / N) with anchor = -L/2 * d, so its
\* centre lies strictly inside the lane span [-L/2, +L/2] along d, and segments
\* i and N-1-i are mirror images about the lane midpoint.
C1_SegmentPlacement ==
    \A m \in DOMAIN pairs :
        LET c == pairs[m]
            d == DirVec(LANE_DIRECTIONS(variant)[c.lane])
            L == LANE_LENGTHS(c.lane)
            N == segments_per_lane
            t == VDot(c.pos, d)
        IN  /\ c.segment_index \in 0..(N - 1)
            /\ c.pos = VScale(CentreOffset(L, c.segment_index, N), d)
            /\ RLt(RNeg(Half(L)), t) /\ RLt(t, Half(L))
            /\ \E m2 \in DOMAIN pairs :
                  /\ pairs[m2].k = c.k
                  /\ pairs[m2].pollutant = c.pollutant
                  /\ pairs[m2].receptor_id = c.receptor_id
                  /\ pairs[m2].segment_index = N - 1 - c.segment_index
                  /\ pairs[m2].pos = VScale(RInt(-1), c.pos)

\* a West lane cut into three: its last segment, one third of the lane from the centre
C1_Witness ==
    \E m \in DOMAIN pairs :
        /\ segments_per_lane = 3
        /\ pairs[m].lane \in {"West", "West In"}
        /\ pairs[m].segment_index = 2
        /\ pairs[m].pos = <<MkR(-7145, 3, -2), Zero>>

\* C2: decomposition conserves length and mass: N times the segment length is
\* the lane length, and the rates Q of the N segments of a lane sum to the
\* per-unit-length rate times the lane length.
C2_Conservation ==
    \A m \in DOMAIN pairs :
        LET c == pairs[m]
            L == LANE_LENGTHS(c.lane)
            N == segments_per_lane
            group == SegmentsLike(c)
        IN  /\ RMul(RInt(N), c.segment_length) = L
            /\ Len(group) = N
            /\ SumQ(group) = RMul(EmissionPerM(variant, c.normed), L)

\* ten segments of a lane with a positive rate
C2_Witness ==
    \E m \in DOMAIN pairs :
        /\ segments_per_lane = 10
        /\ pairs[m].normed = 100
        /\ RLt(Zero, pairs[m].Q)
        /\ Len(SegmentsLike(pairs[m])) = 10

(***************************************************************************)
(* Properties of the downwind filter.                                      *)
(***************************************************************************)
\* distance between two bearings on the circle, in [0, 180]
CircDist(a, b) ==
    LET m == (a - b) % 360
    IN  IF m <= 180 THEN m ELSE 360 - m

IsDownwindCall == call # <<>> /\ call.fn = "is_downwind" /\ call.bearing >= 0

\* C3: is_downwind has an inclusive boundary: a target whose bearing from the
\* source is at most h degrees away (on either side, across the 0/360 wrap too)
\* from the downwind centre (wind_deg + 180) mod 360 is accepted, exactly h
\* included, and a target whose bearing is more than h away is rejected.
C3_InclusiveBoundary ==
    (IsDownwindCall /\ ret # <<>>) =>
        LET away == CircDist(call.bearing, (call.wind_deg + 180) % 360)
        IN  /\ away <= call.half_angle => ret[1] = TRUE
            /\ away > call.half_angle => ret[1] = FALSE

\* a target on the cone boundary across the wrap: bearing 0, centre 345, h = 15
C3_Witness ==
    /\ IsDownwindCall /\ ret = <<TRUE>>
    /\ call.bearing = 0 /\ call.wind_deg = 165 /\ call.half_angle = 15

\* unit displacement toward a compass point: 0 = North (+y), 90 = East (+x)
CompassVec(b) ==
    CASE b = 0 -> <<0, 1>> [] b = 90 -> <<1, 0>>
      [] b = 180 -> <<0, -1>> [] b = 270 -> <<-1, 0>>

\* C4: the wind direction is the compass bearing the wind blows FROM (0 = North,
\* 90 = East, 180 = South, 270 = West) and the cone is centred on the direction
\* it blows TOWARD: for each cardinal wind, the target displaced toward the
\* opposite compass point is accepted for every half-angle >= 0, and the target
\* displaced toward the wind's origin is rejected for every half-angle < 180.
C4_CompassConvention ==
    (/\ call # <<>> /\ ret # <<>>
     /\ call.fn \in {"is_downwind", "angle_between"}
     /\ call.wind_deg \in {0, 90, 180, 270}) =>
        /\ call.vec = CompassVec((call.wind_deg + 180) % 360) => ret[1] = TRUE
        /\ (call.vec = CompassVec(call.wind_deg) /\ call.half_angle < 180)
              => ret[1] = FALSE

(***************************************************************************)
(* Properties of the concentration model.                                  *)
(***************************************************************************)
MinDistance == Dec(1, -1)

\* C5: in every variant the contribution of a segment with rate Q at clamped
\* distance d is C = 10 * Q / (windSpeed * mixingHeight * (0.1 * d)).
C5_SpreadFactorEverywhere ==
    \A m \in DOMAIN pairs :
        LET c == pairs[m]
        IN  c.kept =>
                c.C_kg = RDiv(RMul(RInt(10), c.Q),
                              RMul(RMul(RInt(wind_speed), RInt(mixing_height)),
                                   RMul(Dec(1, -1), c.r)))

\* C6: the distance that enters the concentration formula is max(true
\* distance, 0.1); no contribution is computed with a distance below 0.1,
\* true distances strictly between 0 and 0.1 included.
C6_ClampIsMax ==
    \A m \in DOMAIN pairs :
        LET c == pairs[m]
        IN  c.kept =>
                /\ c.r = RMax(c.dist, MinDistance)
                /\ ~RLt(c.r, MinDistance)

\* C7: when a source segment and an evaluation point coincide (distance 0), for
\* every wind direction and half-angle, no division by zero occurs in the
\* filter or the formula, and the pair yields a finite contribution computed
\* at distance 0.1 (positive when Q > 0); it is not dropped and is not NaN or
\* infinite.
C7_CoincidentPair ==
    \A m \in DOMAIN pairs :
        LET c == pairs[m]
        IN  c.dist = Zero =>
                /\ c.kept
                /\ IsFinite(c.angle)
                /\ c.r = MinDistance
                /\ IsFinite(c.C)
                /\ RLt(Zero, c.Q) => RLt(Zero, c.C)

SameSource(c1, c2) == c1.k = c2.k /\ c1.pollutant = c2.pollutant

\* C8 as stated: for fixed Q > 0, wind speed and mixing height the concentration
\* is strictly decreasing in the source-target distance over all d >= 0:
\* d1 < d2 implies concentration(d1) > concentration(d2).
C8_DecreasingFromZero ==
    \A m1, m2 \in DOMAIN pairs :
        LET c1 == pairs[m1]
            c2 == pairs[m2]
        IN  (c1.kept /\ c2.kept /\ SameSource(c1, c2)
                /\ RLt(Zero, c1.Q) /\ RLt(c1.dist, c2.dist))
                => RLt(c2.C_kg, c1.C_kg)

\* C8 amended: for fixed Q > 0, wind speed and mixing height the concentration
\* is strictly decreasing in the distance from the clamp distance on:
\* 0.1 <= d1 < d2 implies concentration(d1) > concentration(d2).
C8_DecreasingFromClamp ==
    \A m1, m2 \in DOMAIN pairs :
        LET c1 == pairs[m1]
            c2 == pairs[m2]
        IN  (SameSource(c1, c2) /\ RLt(Zero, c1.Q)
                /\ RLe(MinDistance, c1.dist) /\ RLt(c1.dist, c2.dist))
                => /\ RLt(c2.C_kg, c1.C_kg)
                   /\ RLt(c2.C, c1.C)

\* two computed contributions of one lane and pollutant at different distances >= 0.1
C8_Witness ==
    \E m1, m2 \in DOMAIN pairs :
        /\ pairs[m1].kept /\ pairs[m2].kept
        /\ SameSource(pairs[m1], pairs[m2])
        /\ HasFilter(variant)
        /\ RLt(Zero, pairs[m1].Q)
        /\ RLe(MinDistance, pairs[m1].dist)
        /\ RLt(pairs[m1].dist, pairs[m2].dist)
        /\ RLt(pairs[m2].C, pairs[m1].C)

\* the rows that carry a non-zero concentration
NonZeroRows == SelectSeq(rows, LAMBDA r : r.C # Zero)

\* C9: a lane/pollutant record whose normalized rate is 0 produces a
\* concentration of exactly 0 at every evaluation point and adds exactly 0 to
\* every aggregated total it contributes to; no concentration is ever NaN or
\* infinite, coincident source and evaluation point included.
C9_ZeroRate ==
    /\ \A m \in DOMAIN pairs :
          LET c == pairs[m]
          IN  /\ IsFinite(c.C_kg) /\ IsFinite(c.C)
              /\ c.normed = 0 => (c.C_kg = Zero /\ c.C = Zero)
    /\ \A m \in DOMAIN rows : IsFinite(rows[m].C)
    /\ \A name \in DOMAIN out : \A key \in DOMAIN out[name] :
          LET others == Aggregations(NonZeroRows)[name]
          IN  /\ IsFinite(out[name][key])
              /\ out[name][key] = IF key \in DOMAIN others THEN others[key] ELSE Zero

\* a zero-rate segment that coincides with the evaluation point, kept by the
\* filter, with its total written
C9_Witness ==
    /\ pc = "done"
    /\ \E m \in DOMAIN pairs :
          /\ pairs[m].normed = 0 /\ pairs[m].dist = Zero /\ pairs[m].kept
          /\ pairs[m].C = Zero
    /\ \E name \in DOMAIN out : \E key \in DOMAIN out[name] : out[name][key] = Zero

(***************************************************************************)
(* Properties of the aggregation.                                          *)
(***************************************************************************)
Injective(f) == \A i, j \in DOMAIN f : i # j => f[i] # f[j]

Orders(n) == {f \in [1..n -> 1..n] : Injective(f)}

Permuted(sq, f) == [m \in DOMAIN sq |-> sq[f[m]]]

Swap(n, i) == [m \in 1..n |-> IF m = i THEN i + 1 ELSE IF m = i + 1 THEN i ELSE m]

Reverse(n) == [m \in 1..n |-> n + 1 - m]

Rotate(n, k) == [m \in 1..n |-> ((m - 1 + k) % n) + 1]

\* the reorderings tried: all of them for short streams; for longer ones the
\* reversal, every rotation and every exchange of two neighbours
Reorderings(n) ==
    IF n <= 4 THEN Orders(n)
    ELSE {Reverse(n)} \cup {Rotate(n, k) : k \in 1..(n - 1)}
             \cup {Swap(n, i) : i \in 1..(n - 1)}

\* the rows a run appends when the feed is processed in the order f
RECURSIVE RowsOfFeed(_, _)
RowsOfFeed(f, k) ==
    IF k = 0 THEN <<>>
    ELSE RowsOfFeed(f, k - 1) \o
            (IF f[k].edge \in DOMAIN EDGE_TO_LANE(variant)
             THEN LaneRows(f[k], LanePairs(k, f[k])) ELSE <<>>)

\* C10: aggregated totals are order-independent: for any permutation of the
\* stream of contributions, and any processing order of the feed, every
\* grouping key receives the same summed concentration and the same set of
\* keys is produced.
C10_OrderIndependent ==
    (pc = "done" /\ rows # <<>>) =>
        /\ \A f \in Reorderings(Len(rows)) : Aggregations(Permuted(rows, f)) = out
        /\ \A f \in Orders(Len(feed)) :
              Aggregations(RowsOfFeed(Permuted(feed, f), Len(feed))) = out

\* a key that sums different contributions of two different lanes
C10_Witness ==
    /\ pc = "done" /\ variant = "v5_webapp"
    /\ Len(feed) = 2 /\ feed[1].edge # feed[2].edge
    /\ \E i, j \in DOMAIN rows :
          /\ rows[i].lane # rows[j].lane
          /\ rows[i].hour = rows[j].hour
          /\ rows[i].pollutant = rows[j].pollutant
          /\ rows[i].C # rows[j].C
          /\ out["receptor_totals"][<<rows[i].hour, rows[i].pollutant, 0>>]
                \notin {rows[i].C, rows[j].C}

(***************************************************************************)
(* Numbers of the worked scenario and unit conversions.                    *)
(***************************************************************************)
\* |x - target| <= 1% of target
WithinOnePercent(x, target) ==
    RLe(RAbs(RSub(x, target)), RMul(Dec(1, -2), RAbs(target)))

\* C11: for lane "North" (direction (0,-1), length 74.5, midpoint anchor),
\* N = 10, rate 100 g/(km*h), wind speed 1.0, mixing height 50 and the receptor
\* at (0,0), segment 0 is at (0, 33.525), its distance to the receptor is
\* 33.525, its rate Q is about 2.0694e-7 kg/s and its contribution is
\* 12.347 micrograms/m3 within 1%.
C11_WorkedScenario ==
    \A m \in DOMAIN pairs :
        LET c == pairs[m]
        IN  (/\ LANE_TO_SIDE(c.lane) = "North"
             /\ LANE_DIRECTIONS(variant)[c.lane] = <<0, -1>>
             /\ LANE_LENGTHS(c.lane) = Dec(745, -1)
             /\ segments_per_lane = 10
             /\ c.normed = 100
             /\ c.receptor = Origin
             /\ c.segment_index = 0)
            => /\ c.pos = <<Zero, Dec(33525, -3)>>
               /\ c.dist = Dec(33525, -3)
               /\ WithinOnePercent(c.Q, Dec(20694, -11))
               /\ c.kept => WithinOnePercent(c.C, Dec(12347, -3))

\* C12: every variant converts a normalized rate in g/(km*h) to a rate per
\* unit length in kg/(m*s) by multiplying with the same fixed constant,
\* approximately 2.7778e-7.
C12_OneConversionConstant ==
    \A m \in DOMAIN pairs :
        LET c == pairs[m]
        IN  c.normed # 0 =>
                WithinOnePercent(RDiv(c.emission_per_m, RInt(c.normed)),
                                 Dec(27778, -11))

\* the response carries results for a file with at least one lane and x > 0
ScreeningAnswered ==
    /\ call # <<>> /\ ret # <<>>
    /\ call.fn = "compute_screening"
    /\ ret[1].status = 200

\* C13: every variant converts kg/m3 to micrograms/m3 by one multiplication
\* with the factor 1e9 applied to the value of the physical formula: the
\* reported value equals 1e9 * 10 * Q / (U * H * 0.1 * d), the /compute
\* endpoint included.
C13_MicrogramsOnce ==
    (ScreeningAnswered /\ RLt(Zero, call.distance)) =>
        \A pollutant \in DOMAIN ret[1].results :
            LET r == ret[1].results[pollutant]
            IN  r.C_wc_ug_per_m3 =
                    RMul(Dec(1, 9),
                         RDiv(RMul(RInt(10), r.Q_kg_per_s),
                              RMul(RMul(RInt(U_wc), RInt(H_wc)),
                                   RMul(Dec(1, -1), call.distance))))

(***************************************************************************)
(* Properties of error handling.                                           *)
(***************************************************************************)
KnownEdge(rec) == rec.edge \in DOMAIN EDGE_TO_LANE(variant)

\* how many warnings of one kind were printed
CountOf(kind) == Len(SelectSeq(warnings, LAMBDA w : w = kind))

\* the loops over the feed ran to their end
LoopsEnded == pc \in {"run", "done", "crashed"} /\ FeedConsumed

\* C14: when an edge id of the feed is absent from the lane mapping, that
\* record contributes no rows, all later edges and intervals are processed
\* exactly as if the unknown record were not there, and the number of skipped
\* records is counted and available at the end of the run.
C14_SkipAndCount ==
    LoopsEnded =>
        LET known == SelectSeq(feed, KnownEdge)
        IN  /\ rows = RowsOfFeed(known, Len(known))
            /\ CountOf("lane_not_found") = Len(feed) - Len(known)

\* the part of C14 about rows alone
SkippedRecordsLeaveNoTrace ==
    LoopsEnded =>
        LET known == SelectSeq(feed, KnownEdge)
        IN  rows = RowsOfFeed(known, Len(known))

\* a run that has ended, one way or the other
Ended == pc \in {"done", "crashed"}

\* C15: when no contribution passes the downwind filter during a run (a feed
\* with no known lanes included), the run does not fail: it terminates
\* normally with a valid, empty aggregated result set and a warning.
C15_EmptyResultIsNotFatal ==
    (Ended /\ FeedConsumed /\ rows = <<>>) =>
        /\ pc = "done"
        /\ out = [name \in AggregationNames |-> <<>>]
        /\ CountOf("no_results") = 1

\* C16: a configuration with segments_per_lane <= 0 (or a negative wind speed
\* or mixing height) is rejected with a configuration error at startup,
\* before any emission record is read or any contribution is computed.
C16_ConfigRejectedAtStartup ==
    segments_per_lane <= 0 =>
        /\ pc \in {"start", "crashed"}
        /\ idx = 1 /\ pairs = <<>> /\ rows = <<>> /\ out = <<>> /\ files = {}

\* the feed does not parse, or a rate attribute that the run reads is not a
\* number
FeedBroken ==
    \/ ~wellformed
    \/ \E k \in DOMAIN feed : KnownEdge(feed[k]) /\ Malformed(feed[k])

InHour(rec, h) == 3600 * h <= rec.begin /\ rec.begin < 3600 * (h + 1)

\* the aggregate `name` of a run over the records of hour h alone
HourAlone(name, h) ==
    LET sub == SelectSeq(feed, LAMBDA rec : InHour(rec, h))
    IN  GroupBySum(RowsOfFeed(sub, Len(sub)), name)

\* C18: time buckets are independent: the aggregated total for a key
\* (hour h, pollutant, evaluation point) is a function only of the feed
\* records with floor(begin / 3600) = h; it is the total the run computes from
\* those records alone, whatever the records of other hours are.
C18_HourBucketsIndependent ==
    (pc = "done" /\ HasHour(variant)) =>
        \A name \in AggregationNames :
            /\ \A key \in DOMAIN out[name] : key[1] \in 0..23
            /\ \A h \in 0..23 :
                  LET alone == HourAlone(name, h)
                      ofHour == {key \in DOMAIN out[name] : key[1] = h}
                  IN  /\ DOMAIN alone = ofHour
                      /\ \A key \in ofHour : alone[key] = out[name][key]

\* an hourly run whose feed spans two hours and whose output has, for one
\* pollutant and one evaluation point, a total in each of the two hours
C18_Witness ==
    /\ pc = "done" /\ HasHour(variant)
    /\ \E name \in AggregationNames : \E k1, k2 \in DOMAIN out[name] :
          /\ k1[1] = 0 /\ k2[1] = 1
          /\ Tail(k1) = Tail(k2)
          /\ out[name][k1] # Zero /\ out[name][k2] # Zero

\* the pollutant's rate attribute is missing from the lane element, or is 0
ZeroRate(rec, p) == p \notin DOMAIN rec.attrs \/ rec.attrs[p] = 0

\* the feed without its k-th lane element
FeedWithout(k) == SubSeq(feed, 1, k - 1) \o SubSeq(feed, k + 1, Len(feed))

\* the aggregates of the same run over the feed without its k-th element
TotalsWithout(k) ==
    LET f == FeedWithout(k) IN Aggregations(RowsOfFeed(f, Len(f)))

\* where the pollutant stands in the key of each data frame
PollutantAt(name) ==
    CASE name = "overall_pollutant_agg" -> 1
      [] name = "receptor_pollutant_agg" -> 4
      [] OTHER -> 2

\* the totals of one pollutant in one data frame
TotalsOfPollutant(agg, name, p) ==
    LET keys == {key \in DOMAIN agg : key[PollutantAt(name)] = p}
    IN  [key \in keys |-> agg[key]]

\* a lane element that has a zero or missing rate for pollutant p and is read
\* without error
AddsNothing(k, p) ==
    /\ k \in DOMAIN feed
    /\ ZeroRate(feed[k], p)
    /\ \A q \in DOMAIN feed : ~(KnownEdge(feed[q]) /\ Malformed(feed[q]))

\* C19 as stated: a lane record with a missing pollutant attribute or a zero
\* rate is not an error and adds exactly 0 to every aggregated total: the
\* totals of that pollutant are identical to those of the same run with the
\* record removed.
C19_IdenticalWithoutRecord ==
    pc = "done" =>
        \A k \in DOMAIN feed : \A p \in {POLLUTANTS[q] : q \in DOMAIN POLLUTANTS} :
            AddsNothing(k, p) =>
                LET removed == TotalsWithout(k)
                IN  \A name \in AggregationNames :
                        TotalsOfPollutant(out[name], name, p)
                            = TotalsOfPollutant(removed[name], name, p)

\* C19, amended: such a record is not an error and adds exactly 0: every total
\* of that pollutant in the run without the record is the same in the run with
\* it, and every total that exists only because of the record is exactly 0.
C19_AddsExactlyZero ==
    pc = "done" =>
        \A k \in DOMAIN feed :
          LET removed == TotalsWithout(k)
          IN  \A p \in {POLLUTANTS[q] : q \in DOMAIN POLLUTANTS} :
            AddsNothing(k, p) =>
                \A name \in AggregationNames :
                    LET with == TotalsOfPollutant(out[name], name, p)
                        without == TotalsOfPollutant(removed[name], name, p)
                    IN  /\ DOMAIN without \subseteq DOMAIN with
                        /\ \A key \in DOMAIN with :
                              with[key] = IF key \in DOMAIN without
                                          THEN without[key] ELSE Zero

\* an hourly run in which a lane element with a zero or missing rate shares a
\* key with a non-zero contribution of another lane element
C19_Witness ==
    /\ pc = "done" /\ variant = "v5_webapp"
    /\ \E m1, m2 \in DOMAIN pairs :
          /\ pairs[m1].k # pairs[m2].k
          /\ pairs[m1].kept /\ pairs[m2].kept
          /\ AddsNothing(pairs[m1].k, pairs[m1].pollutant)
          /\ pairs[m2].C # Zero
          /\ KeyOf("receptor_totals", RowOf(pairs[m1]))
                = KeyOf("receptor_totals", RowOf(pairs[m2]))

\* the hour of a record, found without a division
HourIndex(rec) == CHOOSE h \in 0..23 : InHour(rec, h)

\* the contributions of a run with the key each belongs to: the kept pairs of
\* the hourly scripts, the per-lane results of disper.py
ContributionOf(c) ==
    CASE variant = "v5_webapp" ->
            [key |-> <<HourIndex(feed[c.k]), c.pollutant, c.receptor_id>>, C |-> c.C]
      [] variant = "v7_webapp" ->
            [key |-> <<HourIndex(feed[c.k]), c.pollutant, c.receptor[1], c.receptor[2]>>,
             C |-> c.C]

Contributions ==
    IF variant = "disper"
    THEN [m \in DOMAIN rows |-> [key |-> <<rows[m].lane, rows[m].pollutant>>, C |-> rows[m].C]]
    ELSE LET kept == SelectSeq(pairs, LAMBDA c : c.kept)
         IN  [m \in DOMAIN kept |-> ContributionOf(kept[m])]

\* the contributions of one key added up from the first to the last
RECURSIVE AddUp(_, _)
AddUp(cs, key) ==
    IF cs = <<>> THEN Zero
    ELSE LET rest == AddUp(Tail(cs), key)
         IN  IF Head(cs).key = key THEN RAdd(Head(cs).C, rest) ELSE rest

\* C20: the aggregated output contains exactly one row per distinct key that
\* received at least one contribution and no row for a key that received
\* none; the row's value is the sum of all contributions with that key
\* (contributions of several intervals of the same hour go into one row).
\* Rows are held as a function of the key, so no two rows can share a key.
C20_OneRowPerKey ==
    (pc = "done" /\ variant \in {"v5_webapp", "v7_webapp", "disper"}) =>
        \A name \in AggregationNames :
            /\ DOMAIN out[name] = {Contributions[m].key : m \in DOMAIN Contributions}
            /\ \A key \in DOMAIN out[name] : out[name][key] = AddUp(Contributions, key)

\* an hourly run in which two intervals of the same hour contribute to one
\* key, whose row holds the sum of both
C20_Witness ==
    /\ pc = "done" /\ HasHour(variant)
    /\ \E m1, m2 \in DOMAIN pairs :
          /\ pairs[m1].kept /\ pairs[m2].kept
          /\ feed[pairs[m1].k].begin = 0 /\ feed[pairs[m2].k].begin = 1800
          /\ pairs[m1].C # Zero /\ pairs[m2].C # Zero
          /\ ContributionOf(pairs[m1]).key = ContributionOf(pairs[m2]).key
          /\ \E name \in AggregationNames :
                /\ ContributionOf(pairs[m1]).key \in DOMAIN out[name]
                /\ RLt(pairs[m1].C, out[name][ContributionOf(pairs[m1]).key])

(***************************************************************************)
(* Properties of the grid sampler.                                         *)
(***************************************************************************)
\* floor of a finite rational >= 0, as an integer
RFloor(a) ==
    LET up(e) == IF e > 0 THEN e ELSE 0
        num == a.n * Pow(2, up(a.e2)) * Pow(5, up(a.e5))
        den == a.d * Pow(2, up(-a.e2)) * Pow(5, up(-a.e5))
    IN  num \div den

GridAnswered == call # <<>> /\ call.fn = "grid_points" /\ ret # <<>>

\* the points are inside the box
InsideBox(g, pts) ==
    \A k \in DOMAIN pts :
        /\ RLe(g.x_min, pts[k][1]) /\ RLe(pts[k][1], g.x_max)
        /\ RLe(g.y_min, pts[k][2]) /\ RLe(pts[k][2], g.y_max)

\* the points are the lattice points, x-major then y, counts nx and ny
LatticeOf(g, pts, nx, ny) ==
    /\ Len(pts) = nx * ny
    /\ \A k \in DOMAIN pts :
          pts[k] = <<RAdd(g.x_min, RMul(RInt((k - 1) \div ny), g.grid_res)),
                     RAdd(g.y_min, RMul(RInt((k - 1) % ny), g.grid_res))>>
    /\ \A k1, k2 \in DOMAIN pts : pts[k1] = pts[k2] => k1 = k2

\* C21: for every bounding box and every positive resolution, the grid sampler
\* returns the lattice points (x_min + i*res, y_min + j*res) without
\* duplicates, ordered x-major then y, all inside the box; their number is
\* (floor((x_max - x_min)/res) + 1) * (floor((y_max - y_min)/res) + 1).
C21_GridInsideBox ==
    GridAnswered =>
        LET g == call.g
            nx == RFloor(RDiv(RSub(g.x_max, g.x_min), g.grid_res)) + 1
            ny == RFloor(RDiv(RSub(g.y_max, g.y_min), g.grid_res)) + 1
        IN  LatticeOf(g, ret[1], nx, ny) /\ InsideBox(g, ret[1])

\* widths that are whole multiples of the resolution
WholeCells(g) ==
    /\ RInt(RFloor(RDiv(RSub(g.x_max, g.x_min), g.grid_res)))
          = RDiv(RSub(g.x_max, g.x_min), g.grid_res)
    /\ RInt(RFloor(RDiv(RSub(g.y_max, g.y_min), g.grid_res)))
          = RDiv(RSub(g.y_max, g.y_min), g.grid_res)

\* the part of C21 that holds: boxes of whole cells
GridOfWholeCells == (GridAnswered /\ WholeCells(call.g)) => C21_GridInsideBox

\* the lattice displacement with a given bearing (a multiple of 45)
VecOfBearing(b) == (CHOOSE t \in LatticeDirs : t.bearing = b % 360).vec

\* the answer for a target at bearing b from the source of the call
AnswerAt(b, wind_deg) ==
    is_downwind(call.src, VAdd(call.src, DirVec(VecOfBearing(b))), wind_deg,
                call.half_angle)

\* the difference is_downwind computes for the call
DiffOfCall ==
    LET delta == VSub(call.receptor, call.src)
        angle == (Arctan2Deg(delta[2], delta[1]) + 360) % 360
    IN  AngularDiff(angle, DownwindCenter(call.wind_deg))

\* C22: is_downwind depends only on the circular distance between the target
\* bearing and the downwind centre: the computed difference is in [0, 180];
\* targets at centre + delta and centre - delta get the same answer (and so do
\* centres at bearing + delta and bearing - delta); a change of wind_deg by a
\* multiple of 360 does not change the answer; with a half-angle >= 180
\* every target is accepted.
C22_CircularDistanceOnly ==
    (IsDownwindCall /\ ret # <<>>) =>
        LET centre == (call.wind_deg + 180) % 360
            delta == call.bearing - centre
        IN  /\ DiffOfCall \in 0..180
            /\ DiffOfCall = CircDist(call.bearing, centre)
            /\ centre % 45 = 0 => AnswerAt(centre - delta, call.wind_deg) = ret[1]
            /\ AnswerAt(call.bearing, call.bearing + delta - 180) = ret[1]
            /\ \A m \in {-2, -1, 1, 2} :
                  AnswerAt(call.bearing, call.wind_deg + 360 * m) = ret[1]
            /\ call.half_angle >= 180 => ret[1] = TRUE

\* a half-angle of 180 and a target straight upwind (180 degrees from the
\* downwind centre)
C22_Witness ==
    /\ IsDownwindCall /\ ret = <<TRUE>>
    /\ call.half_angle = 180
    /\ call.bearing = 315 /\ call.wind_deg = 315

(***************************************************************************)
(* Properties of the groupings of disper_v3.py.                            *)
(***************************************************************************)
\* the sum of the values of an aggregate over a set of its keys
RECURSIVE SumOver(_, _)
SumOver(agg, keys) ==
    IF keys = {} THEN Zero
    ELSE LET key == CHOOSE x \in keys : TRUE
         IN  RAdd(agg[key], SumOver(agg, keys \ {key}))

\* the sum of the totals of one pollutant in one data frame
SumOfTotals(name, p) ==
    LET t == TotalsOfPollutant(out[name], name, p)
    IN  SumOver(t, DOMAIN t)

\* the contributions of one pollutant, added up row by row
RECURSIVE SumOfRows(_, _)
SumOfRows(rs, p) ==
    IF rs = <<>> THEN Zero
    ELSE LET rest == SumOfRows(Tail(rs), p)
         IN  IF Head(rs).pollutant = p THEN RAdd(Head(rs).C, rest) ELSE rest

Groupings ==
    {"lane_pollutant_agg", "dir_pollutant_agg", "flow_pollutant_agg",
     "receptor_pollutant_agg"}

\* C23: the groupings computed from one contribution stream are consistent
\* partitions of it: for every pollutant, the per-lane, per-direction,
\* per-flow and per-receptor totals each add up to the overall total of that
\* pollutant, which is the sum of all its contributions (none missing, none
\* counted twice).
C23_ConsistentPartitions ==
    (pc = "done" /\ variant = "disper_v3") =>
        \A p \in {POLLUTANTS[q] : q \in DOMAIN POLLUTANTS} :
            LET overall == SumOfTotals("overall_pollutant_agg", p)
            IN  /\ overall = SumOfRows(rows, p)
                /\ \A name \in Groupings : SumOfTotals(name, p) = overall

\* a run with non-zero totals of one pollutant on an inbound and on an
\* outbound lane
C23_Witness ==
    /\ pc = "done" /\ variant = "disper_v3"
    /\ \E p \in {POLLUTANTS[q] : q \in DOMAIN POLLUTANTS} :
          /\ <<"In", p>> \in DOMAIN out["flow_pollutant_agg"]
          /\ <<"Out", p>> \in DOMAIN out["flow_pollutant_agg"]
          /\ out["flow_pollutant_agg"][<<"In", p>>] # Zero
          /\ out["flow_pollutant_agg"][<<"Out", p>>] # Zero
          /\ Cardinality({key \in DOMAIN out["lane_pollutant_agg"] : key[2] = p}) >= 2

(***************************************************************************)
(* Agreement of the script variants.                                       *)
(***************************************************************************)
PositionsAnswered == call # <<>> /\ call.fn = "get_segment_positions" /\ ret # <<>>

\* C24: the two decomposition implementations agree: for every lane, every
\* N >= 1 and every index i, get_segment_positions(origin, direction, L, N)[i]
\* of the origin-anchored variant equals get_segment_position(-L/2 * direction,
\* direction, L, i, N) of the midpoint-anchored variants: same positions, same
\* order.
C24_DecompositionsAgree ==
    PositionsAnswered =>
        LET direction == DirVec(SideDirections[call.lane])
            L == LANE_LENGTHS(call.lane)
            N == call.num_segments
        IN  /\ Len(ret[1]) = N
            /\ \A i \in 0..(N - 1) :
                  ret[1][i + 1]
                    = get_segment_position(StartPoint(L, direction), direction, L, i, N)

\* the West lane cut into three segments: the middle centre is the origin
C24_Witness ==
    /\ PositionsAnswered
    /\ call.lane = "West" /\ call.num_segments = 3
    /\ ret[1][1] # ret[1][2] /\ ret[1][2] = Origin

AngleFilterCall == call # <<>> /\ call.fn = "angle_between" /\ call.bearing >= 0

\* C25: the two downwind tests agree: for every source and target at
\* different positions, every wind direction and every tolerance, the
\* vector-angle test (keep iff the angle between target - source and the unit
\* vector at angle wind_direction + 180 is <= tolerance) accepts the pair
\* exactly when is_downwind(source, target, wind_direction, tolerance) is true.
C25_DownwindTestsAgree ==
    (AngleFilterCall /\ ret # <<>>) =>
        ret[1] = is_downwind(call.src, call.receptor, call.wind_deg, call.half_angle)

\* the part of C25 that holds: targets off the boundary of the cone
TestsAgreeOffBoundary ==
    (/\ AngleFilterCall /\ ret # <<>>
     /\ CircDist(call.bearing, (call.wind_deg + 180) % 360) # call.half_angle)
        => C25_DownwindTestsAgree

\* what a script's registry says about an edge id
RegistryOf(v, edge) ==
    LET lane == EDGE_TO_LANE(v)[edge]
    IN  [side |-> LANE_TO_SIDE(lane), direction |-> LANE_DIRECTIONS(v)[lane],
         length |-> LANE_LENGTHS(lane)]

\* C26: the lane registry is the same in every variant: each feed edge id that
\* is mapped at all is mapped to the same compass side with the same direction
\* vector and length in every script, and the same set of edge ids is known to
\* every script, so a feed record yields the same source positions (or is
\* skipped) whichever variant processes it.
C26_SameRegistry ==
    \A k \in DOMAIN feed : \A v \in Variants :
        LET edge == feed[k].edge
        IN  /\ edge \in DOMAIN EDGE_TO_LANE(v) <=> edge \in DOMAIN EDGE_TO_LANE(variant)
            /\ (edge \in DOMAIN EDGE_TO_LANE(v) /\ edge \in DOMAIN EDGE_TO_LANE(variant))
                  => RegistryOf(v, edge) = RegistryOf(variant, edge)

(***************************************************************************)
(* Properties of the junction tracker.                                     *)
(***************************************************************************)
\* the steps (counted from 0) at which a vehicle was seen inside / outside
SeenInside(v) == {s \in 0..(Len(observed) - 1) : v \in observed[s + 1].inside}

SeenOutside(v) ==
    {s \in 0..(Len(observed) - 1) :
        /\ v \in {observed[s + 1].ids[q] : q \in DOMAIN observed[s + 1].ids}
        /\ v \notin observed[s + 1].inside}

Least(S) == CHOOSE s \in S : \A t \in S : s <= t

\* the steps at which the vehicle was seen outside after its first step inside
OutsideLater(v) == {s \in SeenOutside(v) : s > Least(SeenInside(v))}

\* C27: 'enter' is recorded exactly once, at the first step the vehicle is
\* seen inside the junction; 'exit' exactly once, at the first later step it
\* is seen outside; neither is ever overwritten (re-entering changes nothing);
\* exit is recorded only after enter and exit > enter; a vehicle is in the
\* per-vehicle CSV and in the junction average only if both were recorded.
C27_EnterExitOnce ==
    traci_pc # "idle" =>
        /\ DOMAIN vehicle_times = {v \in Vehicles : SeenInside(v) # {}}
        /\ \A v \in DOMAIN vehicle_times :
              /\ vehicle_times[v].enter = Least(SeenInside(v)) * STEP_LENGTH
              /\ "exit" \in DOMAIN vehicle_times[v] <=> OutsideLater(v) # {}
              /\ "exit" \in DOMAIN vehicle_times[v] =>
                    /\ vehicle_times[v].exit = Least(OutsideLater(v)) * STEP_LENGTH
                    /\ vehicle_times[v].exit > vehicle_times[v].enter
        /\ traci_pc = "written" =>
              /\ {junction_csv[m].vehicle_id : m \in DOMAIN junction_csv}
                    = {v \in DOMAIN vehicle_times : "exit" \in DOMAIN vehicle_times[v]}
              /\ Len(junction_csv) = Cardinality({junction_csv[m].vehicle_id :
                                                    m \in DOMAIN junction_csv})
              /\ Len(durations) = Len(junction_csv)
              /\ \A m \in DOMAIN junction_csv :
                    /\ junction_csv[m].entry = vehicle_times[junction_csv[m].vehicle_id].enter
                    /\ junction_csv[m].exit = vehicle_times[junction_csv[m].vehicle_id].exit
                    /\ durations[m] = junction_csv[m].exit - junction_csv[m].entry

\* a vehicle seen inside, outside, then inside again: its times stay 0 and 1,
\* while the other vehicle never left and is in no output
C27_Witness ==
    /\ traci_pc = "written"
    /\ Len(observed) = 3
    /\ SeenInside("veh0") = {0, 2} /\ SeenOutside("veh0") = {1}
    /\ SeenInside("veh1") = {1, 2} /\ SeenOutside("veh1") = {0}
    /\ vehicle_times["veh0"].enter = 0 /\ vehicle_times["veh0"].exit = 1
    /\ Len(junction_csv) = 1 /\ junction_csv[1].vehicle_id = "veh0"

(***************************************************************************)
(* The manual-count trip generator (try_mo/A.py): rows of a count sheet    *)
(* become trips, which are merged into the trips file already on disk.     *)
(***************************************************************************)
VEHICLE_WHITELIST == {"car", "motorcycle", "truck", "bus"}

DIRECTION_TO_EDGE_IN ==
    [north |-> "237386421", east |-> "-29251749#0",
     south |-> "-617654357#1", west |-> "4922743#4"]

DIRECTION_TO_EDGE_OUT ==
    [north |-> "-1232571604", east |-> "29251749#0",
     south |-> "617654357#1", west |-> "-4922743#4"]

\* EDGE_LENGTHS.get(from_edge, 100) and SPEED_LOOKUP.get(vtype, 13.89): the
\* network and the vehicle types are read from files; the defaults stand in
DefaultLength == 100

DefaultSpeed == Dec(1389, -2)

OffsetRange == 60

OffsetLimit == 9

KeyWindow == 90

IdBase == 1000000000

\* Python's round of a number that is no tie
Round(a) == RFloor(RAdd(a, Dec(5, -1)))

estimate_depart(junction_time, from_edge, vtype) ==
    LET length == RInt(DefaultLength)
        speed == DefaultSpeed
        travel_time == RDiv(length, speed)
    IN  Round(RSub(RInt(junction_time), travel_time))

\* a Time cell: its text, and the hour and minute when the text is "%H:%M"
ParsesAsTime(cell) == cell.text = "hh:mm"

parse_time_to_seconds(cell) == cell.h * 3600 + cell.m * 60

\* row["Vehicle"].strip().lower()
StripLower(cell) ==
    CASE cell = "Car " -> "car"
      [] cell = "BUS" -> "bus"
      [] OTHER -> cell

\* random.choice(list(DIRECTION_TO_EDGE_IN.keys())) when the cell is empty
EntryChoices(row) ==
    IF row.Entry = "" THEN DOMAIN DIRECTION_TO_EDGE_IN ELSE {row.Entry}

\* random.choice([d for d in DIRECTION_TO_EDGE_OUT if d != entry_dir]) when
\* the cell is empty or names the entry direction
ExitChoices(row, entry_dir) ==
    IF row.Exit = "" \/ row.Exit = entry_dir
    THEN DOMAIN DIRECTION_TO_EDGE_OUT \ {entry_dir}
    ELSE {row.Exit}

\* the row reaches parsed_rows.append
RowAccepted(row, entry_dir, exit_dir, used_offsets) ==
    /\ entry_dir \in DOMAIN DIRECTION_TO_EDGE_IN
    /\ exit_dir \in DOMAIN DIRECTION_TO_EDGE_OUT
    /\ StripLower(row.Vehicle) \in VEHICLE_WHITELIST
    /\ row.Time.text # ""
    /\ ParsesAsTime(row.Time)
    /\ Cardinality(used_offsets) < OffsetLimit

\* the tuple the row appends
RowParsed(row, entry_dir, exit_dir, random_offset) ==
    LET vtype == StripLower(row.Vehicle)
        from_edge == DIRECTION_TO_EDGE_IN[entry_dir]
        to_edge == DIRECTION_TO_EDGE_OUT[exit_dir]
        entered_seconds == parse_time_to_seconds(row.Time)
        depart_time == estimate_depart(entered_seconds, from_edge, vtype)
        base_minute == (depart_time \div 60) * 60
        adjusted_depart_time == base_minute + random_offset
    IN  <<adjusted_depart_time, vtype, from_edge, to_edge>>

\* the header search: a line with Time, Vehicle, Entry and Exit
FindHeader ==
    /\ merge_pc = "start"
    /\ merge_pc' = IF input_csv.header THEN "rows" ELSE "ValueError: no header"
    /\ UNCHANGED <<input_csv, existing_file, row_no, parsed_rows, trips_xml, countt,
                   runvars, fnvars, tracivars, rawvars>>

\* one pass of `for row in reader`; depart_offsets is a fresh defaultdict(set)
\* in every pass, so used_offsets is the empty set it has just created
ReadRow ==
    /\ merge_pc = "rows"
    /\ row_no <= Len(input_csv.rows)
    /\ LET row == input_csv.rows[row_no]
           depart_offsets == {}
           used_offsets == depart_offsets
           available_offsets == (0..(OffsetRange - 1)) \ used_offsets
       IN  \E entry_dir \in EntryChoices(row) :
           \E exit_dir \in ExitChoices(row, entry_dir) :
           \E random_offset \in available_offsets :
              parsed_rows' =
                 IF RowAccepted(row, entry_dir, exit_dir, used_offsets)
                 THEN Append(parsed_rows, RowParsed(row, entry_dir, exit_dir, random_offset))
                 ELSE parsed_rows
    /\ row_no' = row_no + 1
    /\ UNCHANGED <<input_csv, existing_file, trips_xml, countt, merge_pc,
                   runvars, fnvars, tracivars, rawvars>>

\* the order of Python strings, for the names the script handles
StringsInOrder ==
    <<"-1232571604", "-29251749#0", "-4922743#4", "-617654357#1",
      "237386421", "29251749#0", "4922743#4", "617654357#1",
      "bus", "car", "motorcycle", "truck">>

StringRank(str) == CHOOSE k \in DOMAIN StringsInOrder : StringsInOrder[k] = str

\* the order of the tuples of parsed_rows
RowLt(a, b) ==
    \/ a[1] < b[1]
    \/ a[1] = b[1] /\ StringRank(a[2]) < StringRank(b[2])
    \/ a[1] = b[1] /\ a[2] = b[2] /\ StringRank(a[3]) < StringRank(b[3])
    \/ a[1] = b[1] /\ a[2] = b[2] /\ a[3] = b[3] /\ StringRank(a[4]) < StringRank(b[4])

\* parsed_rows.sort()
RECURSIVE SortRows(_)
SortRows(s) ==
    IF s = <<>> THEN <<>>
    ELSE LET before == SortRows(SubSeq(s, 1, Len(s) - 1))
             x == s[Len(s)]
             k == Cardinality({q \in DOMAIN before : ~RowLt(x, before[q])})
         IN  SubSeq(before, 1, k) \o <<x>> \o SubSeq(before, k + 1, Len(before))

\* sorted(trips.findall("trip"), key=lambda t: float(t.attrib["depart"]))
RECURSIVE SortTrips(_)
SortTrips(s) ==
    IF s = <<>> THEN <<>>
    ELSE LET before == SortTrips(SubSeq(s, 1, Len(s) - 1))
             x == s[Len(s)]
             k == Cardinality({q \in DOMAIN before : ~RLt(x.depart, before[q].depart)})
         IN  SubSeq(before, 1, k) \o <<x>> \o SubSeq(before, k + 1, Len(before))

\* int(float(trip.attrib["depart"])): towards zero
IntOfFloat(a) == IF RLt(a, Zero) THEN -RFloor(RNeg(a)) ELSE RFloor(a)

\* STEP 1.5: the keys and the ids of the trips already in the file
ExistingKeys(root) ==
    {<<root[q].type, root[q].from, root[q].to, IntOfFloat(root[q].depart) \div KeyWindow>> :
        q \in DOMAIN root}

ExistingIds(root) == {root[q].id : q \in DOMAIN root}

\* a row becomes a trip even when its key is taken
addTripAnyKey(st, vehicle_id, row) ==
    LET key == <<row[2], row[3], row[4], row[1] \div KeyWindow>>
        trip_id == <<row[2], vehicle_id + IdBase>>
    IN  IF trip_id \in st.ids THEN st
        ELSE [keys |-> st.keys \cup {key},
              ids |-> st.ids \cup {trip_id},
              trips |-> Append(st.trips,
                           [id |-> trip_id, type |-> row[2], depart |-> RInt(row[1]),
                            from |-> row[3], to |-> row[4]]),
              countt |-> st.countt + 1]

\* STEP 2, one pass of the loop: the trip of a row, unless its key or its id
\* is taken
addTrip(st, vehicle_id, row) ==
    LET key == <<row[2], row[3], row[4], row[1] \div KeyWindow>>
        trip_id == <<row[2], vehicle_id + IdBase>>
    IN  IF key \in st.keys THEN st
        ELSE IF trip_id \in st.ids THEN st
        ELSE [keys |-> st.keys \cup {key},
              ids |-> st.ids \cup {trip_id},
              trips |-> Append(st.trips,
                           [id |-> trip_id, type |-> row[2], depart |-> RInt(row[1]),
                            from |-> row[3], to |-> row[4]]),
              countt |-> st.countt + 1]

\* STEP 2: for vehicle_id, row in enumerate(parsed_rows)
RECURSIVE addTrips(_, _, _)
addTrips(st, sorted_rows, vehicle_id) ==
    IF sorted_rows = <<>> THEN st
    ELSE addTrips(addTrip(st, vehicle_id, Head(sorted_rows)), Tail(sorted_rows),
                  vehicle_id + 1)

\* STEP 1.5 to STEP 3; with no trips file the root is new, the file is
\* written, and the print of total_trips_in_file that follows fails
MergeTrips ==
    /\ merge_pc = "rows"
    /\ row_no > Len(input_csv.rows)
    /\ IF parsed_rows = <<>>
       THEN /\ merge_pc' = "ValueError: no data"
            /\ UNCHANGED <<trips_xml, countt>>
       ELSE LET root_existing == IF existing_file.found THEN existing_file.trips ELSE <<>>
                st == addTrips([keys |-> ExistingKeys(root_existing),
                                ids |-> ExistingIds(root_existing),
                                trips |-> root_existing, countt |-> 0],
                               SortRows(parsed_rows), 0)
            IN  /\ trips_xml' = [found |-> TRUE, trips |-> SortTrips(st.trips)]
                /\ countt' = st.countt
                /\ merge_pc' = IF existing_file.found THEN "done" ELSE "NameError"
    /\ UNCHANGED <<input_csv, existing_file, row_no, parsed_rows,
                   runvars, fnvars, tracivars, rawvars>>

Hm(h, m) == [text |-> "hh:mm", h |-> h, m |-> m]

NotATime(text) == [text |-> text, h |-> 0, m |-> 0]

CountRow(time, vehicle, entry, exit) ==
    [Time |-> time, Vehicle |-> vehicle, Entry |-> entry, Exit |-> exit]

\* count sheets: two cars of one minute on one movement; a minute that spans
\* two key windows; a sheet with no usable row; a sheet with no header; a
\* U-turn counted at midnight; an unreadable time and a missing entry
CountSheets ==
    { [header |-> TRUE, rows |-> <<CountRow(Hm(8, 30), "car", "north", "south"),
                                   CountRow(Hm(8, 30), "Car ", "north", "south")>>],
      [header |-> TRUE, rows |-> <<CountRow(Hm(8, 32), "car", "north", "south"),
                                   CountRow(Hm(8, 32), "BUS", "east", "north")>>],
      [header |-> TRUE, rows |-> <<CountRow(Hm(8, 30), "jeepney", "north", "south"),
                                   CountRow(NotATime(""), "car", "north", "south"),
                                   CountRow(Hm(8, 30), "car", "up", "south")>>],
      [header |-> FALSE, rows |-> <<CountRow(Hm(8, 30), "car", "north", "south")>>],
      [header |-> TRUE, rows |-> <<CountRow(Hm(0, 0), "truck", "west", "west")>>],
      [header |-> TRUE, rows |-> <<CountRow(NotATime("8am"), "car", "north", "south"),
                                   CountRow(Hm(8, 31), "motorcycle", "", "south")>>] }

Trip(id, type, depart, from, to) ==
    [id |-> id, type |-> type, depart |-> depart, from |-> from, to |-> to]

\* trips files: none; one of an earlier run of the script, whose trip holds
\* the key and the id the first row would get; one of another tool, out of
\* order and with fractional departure times
TripsFiles ==
    { [found |-> FALSE, trips |-> <<>>],
      [found |-> TRUE, trips |->
        <<Trip(<<"car", IdBase>>, "car", RInt(30545), "237386421", "617654357#1")>>],
      [found |-> TRUE, trips |->
        <<Trip(<<"veh", 7>>, "bus", Dec(306995, -1), "-29251749#0", "-1232571604"),
          Trip(<<"veh", 3>>, "car", Dec(1205, -1), "237386421", "617654357#1")>>] }

InitMerge ==
    /\ InitRun(Scenario("v5_webapp", DefaultSegments, 217, 45, <<>>, <<Origin>>, <<>>))
    /\ call = <<>>
    /\ ret = <<>>
    /\ TraciInit("idle")
    /\ RawIdle
    /\ input_csv \in CountSheets
    /\ existing_file \in TripsFiles
    /\ trips_xml = existing_file
    /\ row_no = 1
    /\ parsed_rows = <<>>
    /\ countt = 0
    /\ merge_pc = "start"

NextMerge == FindHeader \/ ReadRow \/ MergeTrips

SpecMerge == InitMerge /\ [][NextMerge]_vars

(***************************************************************************)
(* Properties of the manual-count trip generator.                          *)
(***************************************************************************)
BaseMinute(depart) == (depart \div 60) * 60

\* C28: every accepted row gets a second offset that no earlier accepted row
\* of the same base minute has, so no two trips of one base minute share a
\* departure time.
C28_OffsetsNotReused ==
    \A a, b \in DOMAIN parsed_rows :
        a # b /\ BaseMinute(parsed_rows[a][1]) = BaseMinute(parsed_rows[b][1])
            => parsed_rows[a][1] # parsed_rows[b][1]

\* the merge has written the trips file
Merged == merge_pc \in {"done", "NameError"}

\* the trips the file had before the run, and the trips the run added
TripsBefore == IF existing_file.found THEN existing_file.trips ELSE <<>>

TripsAdded == SelectSeq(trips_xml.trips, LAMBDA t : t.id \notin ExistingIds(TripsBefore))

\* the key of a trip: type, from, to, and the 90 s window of its departure
WindowKey(t) == <<t.type, t.from, t.to, RFloor(t.depart) \div KeyWindow>>

\* C29: after the merge every trip the file had is still in it, each key
\* (vtype, from, to, depart // 90) has at most one new trip and none if a trip
\* of the file had it, all trip ids differ, and the trips are written in
\* non-decreasing order of departure.
C29_MergeKeepsAndOrders ==
    Merged =>
        LET written == trips_xml.trips
        IN  /\ \A q \in DOMAIN TripsBefore : \E k \in DOMAIN written : written[k] = TripsBefore[q]
            /\ Len(written) = Len(TripsBefore) + countt
            /\ Len(TripsAdded) = countt
            /\ \A a, b \in DOMAIN TripsAdded :
                  a # b => WindowKey(TripsAdded[a]) # WindowKey(TripsAdded[b])
            /\ \A a \in DOMAIN TripsAdded : \A q \in DOMAIN TripsBefore :
                  WindowKey(TripsAdded[a]) # WindowKey(TripsBefore[q])
            /\ \A a, b \in DOMAIN written : a # b => written[a].id # written[b].id
            /\ \A k \in 1..(Len(written) - 1) : RLe(written[k].depart, written[k + 1].depart)

\* two accepted rows of one key meet a file of two trips that was out of
\* order: one trip is added, and it is written between the two
C29_Witness ==
    /\ merge_pc = "done"
    /\ Len(parsed_rows) = 2
    /\ parsed_rows[1][1] \div KeyWindow = parsed_rows[2][1] \div KeyWindow
    /\ parsed_rows[1][2] = parsed_rows[2][2]
    /\ Len(existing_file.trips) = 2
    /\ countt = 1
    /\ Len(trips_xml.trips) = 3
    /\ trips_xml.trips[1] = existing_file.trips[2]
    /\ trips_xml.trips[2].id = <<"car", IdBase>>
    /\ trips_xml.trips[3] = existing_file.trips[1]

(***************************************************************************)
(* The raw-count trip generator (generate_trips_from_raw_csv_v6.py).  The  *)
(* reader and the loop over its rows (lines 88 to 157) are indented under  *)
(* `if header_index == -1:`, below its raise: no run executes them.        *)
(***************************************************************************)
MaxRows == 2

\* the header search: a line naming the six columns; without one the script
\* raises, with one it goes straight on to the test of parsed_rows
RawFindHeader ==
    /\ raw_pc = "start"
    /\ raw_pc' = IF raw_csv.header THEN "read" ELSE "ValueError: no header"
    /\ UNCHANGED <<raw_csv, raw_parsed_rows, output_trips,
                   runvars, fnvars, tracivars, mergevars>>

\* STEP 2: one trip per parsed row, ids numbered in the sorted order
RawTrips(sorted_rows) ==
    [q \in DOMAIN sorted_rows |->
        Trip(<<sorted_rows[q][2], q - 1>>, sorted_rows[q][2], RInt(sorted_rows[q][1]),
             sorted_rows[q][3], sorted_rows[q][4])]

\* the test of parsed_rows, then STEP 2 and STEP 3
RawGenerate ==
    /\ raw_pc = "read"
    /\ IF raw_parsed_rows = <<>>
       THEN /\ raw_pc' = "ValueError: no data"
            /\ UNCHANGED output_trips
       ELSE /\ output_trips' = RawTrips(SortRows(raw_parsed_rows))
            /\ raw_pc' = "done"
    /\ UNCHANGED <<raw_csv, raw_parsed_rows, runvars, fnvars, tracivars, mergevars>>

Stamp(text, secs) == [text |-> text, secs |-> secs]

RawRow(entered_time, direction_entry, direction_exit, vehicle_type_entry, vehicle_type_exit) ==
    [entered_time |-> entered_time,
     direction_entry |-> direction_entry, direction_exit |-> direction_exit,
     vehicle_type_entry |-> vehicle_type_entry, vehicle_type_exit |-> vehicle_type_exit]

\* rows of the raw count: two good ones, one typed only at the exit, one of a
\* vehicle type outside the whitelist, one with a broken timestamp, one with
\* an unknown direction
RawRows ==
    { RawRow(Stamp("iso", 30600), "north", "south", "car", "car"),
      RawRow(Stamp("iso", 30500), "east", "west", "bus", ""),
      RawRow(Stamp("iso", 30700), "west", "north", "", "truck"),
      RawRow(Stamp("iso", 30600), "north", "south", "jeepney", ""),
      RawRow(Stamp("17 May", 0), "north", "south", "car", "car"),
      RawRow(Stamp("iso", 30600), "up", "south", "car", "car") }

RawSheets ==
    { [header |-> hd, rows |-> rs] :
        hd \in BOOLEAN,
        rs \in UNION {[1..len -> RawRows] : len \in 0..MaxRows} }

InitRaw ==
    /\ InitRun(Scenario("v5_webapp", DefaultSegments, 217, 45, <<>>, <<Origin>>, <<>>))
    /\ call = <<>>
    /\ ret = <<>>
    /\ TraciInit("idle")
    /\ MergeIdle
    /\ raw_csv \in RawSheets
    /\ raw_parsed_rows = <<>>
    /\ output_trips = <<>>
    /\ raw_pc = "start"

NextRaw == RawFindHeader \/ RawGenerate

SpecRaw == InitRaw /\ [][NextRaw]_vars

(***************************************************************************)
(* Properties of the raw-count trip generator.                             *)
(***************************************************************************)
\* a row with a whitelisted vehicle type, valid distinct directions and a
\* timestamp that parses
ValidRow(row) ==
    /\ (IF row.vehicle_type_entry # "" THEN row.vehicle_type_entry
                                      ELSE row.vehicle_type_exit) \in VEHICLE_WHITELIST
    /\ row.direction_entry \in DOMAIN DIRECTION_TO_EDGE_IN
    /\ row.direction_exit \in DOMAIN DIRECTION_TO_EDGE_OUT
    /\ row.direction_entry # row.direction_exit
    /\ row.entered_time.text = "iso"

ValidRows == SelectSeq(raw_csv.rows, ValidRow)

RawEnded == raw_pc \in {"done", "ValueError: no header", "ValueError: no data"}

\* C30: with a valid header and at least one valid row the rows are
\* processed, each valid row yields exactly one trip and the run ends by
\* writing the trips in order of departure; 'No valid vehicle trip data
\* found' is raised only when no row is valid.
C30_ValidRowsBecomeTrips ==
    RawEnded /\ raw_csv.header =>
        /\ raw_pc = "ValueError: no data" => ValidRows = <<>>
        /\ ValidRows # <<>> =>
              /\ raw_pc = "done"
              /\ Len(output_trips) = Len(ValidRows)
              /\ \A k \in 1..(Len(output_trips) - 1) :
                    RLe(output_trips[k].depart, output_trips[k + 1].depart)

====
